---- MODULE Spec2Model ----
(***************************************************************************)
(* Mode controller, strategy writers/readers and the simulator's control   *)
(* operations of VAgent.                                                   *)
(*   backend/app/core/mode_control.py   ModeController, readers, writers   *)
(*   backend/app/data/simulator.py      DataSimulator control operations   *)
(*                                                                         *)
(* Time is counted in clock units of 1/ClockRes second; both the event     *)
(* loop clock (asyncio loop.time()) and the wall clock (datetime.utcnow()) *)
(* read the variable now.                                                  *)
(***************************************************************************)
EXTENDS Integers, Sequences, FiniteSets, TLC

VARIABLES
    mode,              \* ModeController._mode
    reader,            \* class of ModeController.reader
    writer,            \* class of ModeController.writer
    writer_logs,       \* ValidationControlWriter.logs of the bound writer
    audit_log,         \* ModeController.audit_log
    last_switch_time,  \* ModeController._last_switch_time
    lock,              \* holder of ModeController._lock, or NoTask
    pc,                \* position of each task calling switch_mode
    req,               \* arguments of each task's switch_mode call
    outcome,           \* how each task's last switch_mode call ended
    now,               \* the clock
    sim_state,         \* fields of the SimState object DataSimulator._state
    sim_state_id,      \* identity of the SimState object DataSimulator._state
    wcall,             \* the last writer command and what it returned
    heat_efficiency_factor,  \* DataSimulator.heat_efficiency_factor
    last_valid_temp,   \* DataSimulator.soft_sensor.last_valid_temp
    sensor_result,     \* what the last SoftSensor.process call returned
    sensor_call,       \* the arguments of that call and what it found
    payload,           \* the snapshot the loop built last
    subscribers,       \* DataSimulator._subscribers
    queues,            \* the asyncio.Queue of each subscription
    received,          \* what each subscription's generator has yielded
    stream_ts,         \* when the /stream generator last built a payload
    kf,                \* a KalmanFilter1D object and how its last call ended
    kin,               \* the last calculate_kinetics_derivatives call
    eq,                \* the last calculate_equilibrium_state call
    lance,             \* the last recommend_lance_profile call
    chat,              \* the last CoordinatorAgent.run call
    http,              \* the last POST /api/system/mode request and its answer
    graph              \* one thread of the agent workflow graph: its checkpoint

vars == <<mode, reader, writer, writer_logs, audit_log, last_switch_time,
          lock, pc, req, outcome, now, sim_state, sim_state_id, wcall,
          heat_efficiency_factor, last_valid_temp, sensor_result, sensor_call, payload,
          subscribers, queues, received, stream_ts,
          kf, kin, eq, lance, chat, http, graph>>

ctrl_vars == <<mode, reader, writer, writer_logs, audit_log, last_switch_time>>
task_vars == <<lock, pc, req, outcome>>
sim_vars  == <<sim_state, sim_state_id>>
sensor_vars == <<last_valid_temp, sensor_result, sensor_call>>
fanout_vars == <<subscribers, queues, received>>
loop_vars == <<heat_efficiency_factor, sensor_vars, payload, fanout_vars, stream_ts>>
tool_vars == <<kf, kin, eq, lance, chat, http, graph>>

----------------------------------------------------------------------------
(* Bounds                                                                  *)

ClockRes == 2          \* clock units per second
MaxTime == 6           \* the clock stops advancing here
MaxCoolant == 50       \* add_coolant is not called beyond this total (kg)
MaxWriterLog == 2      \* validation writer commands are not issued beyond this log length
MaxResets == 1         \* run resets considered
MaxDrift == 3          \* tenths of a degC a reconstructed reference may wander from the readings
MaxTicks == 3          \* ticks of the loop followed from a starting point
LongStopTicks == 168000  \* a starting point this many ticks into an emergency stop
Subs == {"s1", "s2"}   \* subscriptions

Tasks == {"t1", "t2"}
\* each task is a client acting for one user and giving one reason
UserOf == [t \in Tasks |-> IF t = "t1" THEN "admin" ELSE "hacker"]
ReasonOf == [t \in Tasks |-> IF t = "t1" THEN "Testing" ELSE ""]
NoTask == "none"
NoReq == [new_mode |-> "none", user |-> "none", auth_token |-> "none", reason |-> "none"]

Tokens == {"SECURE_PRODUCTION_TOKEN_2026", "wrong_token"}
Heights == {1500}      \* mm
Flows == {300}         \* Nm3/min
Weights == {50}        \* kg
Materials == {"oxide_scale"}

----------------------------------------------------------------------------
(* Program constants                                                       *)

SystemMode == {"SIMULATION", "VALIDATION", "PRODUCTION"}

switch_cooldown == 1 * ClockRes                 \* self._switch_cooldown = 1.0 s
PRODUCTION_TOKEN == "SECURE_PRODUCTION_TOKEN_2026"
oxygen_flow_nm3_h_default == 22000
\* settings.oxygen_flow_nm3_h_default / 60.0, in whole Nm3/min
DefaultOxygenFlow == oxygen_flow_nm3_h_default \div 60
DefaultLanceHeight == 1100
SafeLanceHeight == 2000

\* Fixed-point units of the simulator's floats.  A temperature is a whole
\* number of 1/TempScale degC: the emergency-stop cooling of one tick,
\* 0.1 * (1.0 / 60.0) degC, is 1 unit.  A percentage is a whole number of
\* 1/PctScale percent.  The heat efficiency is in thousandths.
TempScale == 600
PctScale == 10000

Deg(c) == c * TempScale

\* Optional[...]: None is the empty tuple, a value v is <<v>>
None == <<>>
Some(v) == <<v>>

\* core/config.py: rate constants, in thousandths per minute
k_si_base == 2000
k_mn_base == 1500
k_v_base == 1200
k_c_base == 50
reaction_rate_mod_default == 1050
heat_efficiency_default == 920
temp_critical_v_c_switch == 1360

\* SimState.time_min counts ticks of dt_s = 1.0 s, i.e. 1/60 min.  The
\* float sums the loop compares with its thresholds are those of repeated
\* addition of 1.0/60.0 from 0.0; each threshold below is the tick count
\* at which the comparison in the code changes its outcome.
ResetTick == 600            \* first tick with time_min > total_duration + 2.0
CoolantFirstTick == 175     \* first tick with 2.9 < time_min
CoolantLastTick == 186      \* last tick with time_min < 3.1
LanceRaiseTick == 60        \* first tick with not time_min < 1.0
LanceLowerTick == 301       \* first tick with not time_min < 5.0
TscFirstTick == 118         \* first and last tick with 1.95 <= round(time_min, 1) <= 2.05
TscLastTick == 123
TsoFirstTick == 418         \* first and last tick with 6.95 <= round(time_min, 1) <= 7.05
TsoLastTick == 423

\* SimState(): the dataclass defaults, lines 24-59; last_ts is the wall
\* clock at construction
SimStateAt(ts) ==
    [ time_min            |-> 0,
      c_pct               |-> 35000,
      si_pct              |-> 2500,
      v_pct               |-> 3500,
      mn_pct              |-> 2000,
      d_si                |-> 0,
      d_c                 |-> 0,
      temp_c              |-> Deg(1280),
      lance_height_mm     |-> DefaultLanceHeight,
      oxygen_flow_nm3_min |-> DefaultOxygenFlow,
      coolant_added_kg    |-> 0,
      latest_sample       |-> None,
      is_emergency_stop   |-> FALSE,
      last_ts             |-> ts ]

SimState == SimStateAt(now)

----------------------------------------------------------------------------
(* ModeController.switch_mode                                              *)

\* variant: the window is closed one clock unit too late
RateLimited_inclusive(current_time) ==
    current_time - last_switch_time <= switch_cooldown

\* line 182: current_time - self._last_switch_time < self._switch_cooldown
RateLimited(current_time) ==
    current_time - last_switch_time < switch_cooldown

\* variant: the state-machine check is missing
IllegalTransition_unchecked(new_mode) ==
    FALSE

\* line 189
IllegalTransition(new_mode) ==
    mode = "SIMULATION" /\ new_mode = "PRODUCTION"

\* variant: any credential is accepted
TokenValid_any(auth_token) ==
    TRUE

\* line 194
TokenValid(auth_token) ==
    auth_token = PRODUCTION_TOKEN

\* lines 199-209: the reader bound for a mode
StrategyReader(new_mode) ==
    CASE new_mode = "SIMULATION" -> "SimulationDataReader"
      [] new_mode = "VALIDATION" -> "ValidationDataReader"
      [] new_mode = "PRODUCTION" -> "ValidationDataReader"

\* variant: the shadow mode is given the production writer
StrategyWriter_shadowActuates(new_mode) ==
    CASE new_mode = "SIMULATION" -> "SimulationControlWriter"
      [] new_mode = "VALIDATION" -> "ProductionControlWriter"
      [] new_mode = "PRODUCTION" -> "ProductionControlWriter"

\* lines 199-209: the writer bound for a mode
StrategyWriter(new_mode) ==
    CASE new_mode = "SIMULATION" -> "SimulationControlWriter"
      [] new_mode = "VALIDATION" -> "ValidationControlWriter"
      [] new_mode = "PRODUCTION" -> "ProductionControlWriter"

\* variant: from_mode is taken after the mode was updated
ModeSwitchRecord_fromAfter(user, new_mode, reason) ==
    [ timestamp |-> now, user |-> user, from_mode |-> new_mode,
      to_mode |-> new_mode, reason |-> reason ]

\* variant: the record names the modes the wrong way round
ModeSwitchRecord_swapped(user, new_mode, reason) ==
    [ timestamp |-> now, user |-> user, from_mode |-> new_mode,
      to_mode |-> mode, reason |-> reason ]

\* lines 212-218
ModeSwitchRecord(user, new_mode, reason) ==
    [ timestamp |-> now, user |-> user, from_mode |-> mode,
      to_mode |-> new_mode, reason |-> reason ]

\* variant: the no-op check comes before the rate limit
SwitchOutcome_noopFirst(r, current_time) ==
    IF r.new_mode = mode THEN "return"
    ELSE IF RateLimited(current_time) THEN "RuntimeError"
    ELSE IF IllegalTransition(r.new_mode) THEN "ValueError"
    ELSE IF r.new_mode = "PRODUCTION" /\ ~TokenValid(r.auth_token) THEN "PermissionError"
    ELSE "return"

\* variant: the credential is checked whatever the target mode is
SwitchOutcome_tokenAlways(r, current_time) ==
    IF RateLimited(current_time) THEN "RuntimeError"
    ELSE IF r.new_mode = mode THEN "return"
    ELSE IF IllegalTransition(r.new_mode) THEN "ValueError"
    ELSE IF ~TokenValid(r.auth_token) THEN "PermissionError"
    ELSE "return"

\* How the call ends: the exception raised, or "return"
SwitchOutcome(r, current_time) ==
    IF RateLimited(current_time) THEN "RuntimeError"
    ELSE IF r.new_mode = mode THEN "return"
    ELSE IF IllegalTransition(r.new_mode) THEN "ValueError"
    ELSE IF r.new_mode = "PRODUCTION" /\ ~TokenValid(r.auth_token) THEN "PermissionError"
    ELSE "return"

\* TRUE when the call reaches lines 197-223
Commits(r, current_time) ==
    /\ SwitchOutcome(r, current_time) = "return"
    /\ r.new_mode # mode

\* A task calls switch_mode and reaches `async with self._lock`
Call(t, m, u, tok, rsn) ==
    /\ pc[t] = "idle"
    /\ pc' = [pc EXCEPT ![t] = "acquire"]
    /\ req' = [req EXCEPT ![t] = [new_mode |-> m, user |-> u, auth_token |-> tok, reason |-> rsn]]
    /\ outcome' = [outcome EXCEPT ![t] = "pending"]
    /\ UNCHANGED <<lock, ctrl_vars, now, sim_vars, wcall, loop_vars, tool_vars>>

\* variant: no mutual exclusion
LockFree_always == TRUE

\* asyncio.Lock: free when nobody holds it
LockFree == lock = NoTask

\* line 180: the lock is acquired
Acquire(t) ==
    /\ pc[t] = "acquire"
    /\ LockFree
    /\ lock' = t
    /\ pc' = [pc EXCEPT ![t] = "locked"]
    /\ UNCHANGED <<req, outcome, ctrl_vars, now, sim_vars, wcall, loop_vars, tool_vars>>

\* variant: the last-switch time is stamped before the checks, so a
\* rejected attempt restarts the cooldown
Body_stampsFirst(t) ==
    /\ pc[t] = "locked"
    /\ LET r == req[t]
           current_time == now
       IN /\ outcome' = [outcome EXCEPT ![t] = SwitchOutcome(r, current_time)]
          /\ last_switch_time' = current_time
          /\ IF Commits(r, current_time)
             THEN /\ reader' = StrategyReader(r.new_mode)
                  /\ writer' = StrategyWriter(r.new_mode)
                  /\ writer_logs' = <<>>
                  /\ audit_log' = Append(audit_log, ModeSwitchRecord(r.user, r.new_mode, r.reason))
                  /\ mode' = r.new_mode
             ELSE UNCHANGED <<mode, reader, writer, writer_logs, audit_log>>
    /\ lock' = IF lock = t THEN NoTask ELSE lock
    /\ pc' = [pc EXCEPT ![t] = "idle"]
    /\ UNCHANGED <<req, now, sim_vars, wcall, loop_vars, tool_vars>>

\* variant: the lock is released only when the call returns, a raised
\* exception leaves it held
Body_holdsOnRaise(t) ==
    /\ pc[t] = "locked"
    /\ LET r == req[t]
           current_time == now
       IN /\ outcome' = [outcome EXCEPT ![t] = SwitchOutcome(r, current_time)]
          /\ lock' = IF SwitchOutcome(r, current_time) = "return" /\ lock = t
                     THEN NoTask ELSE lock
          /\ IF Commits(r, current_time)
             THEN /\ reader' = StrategyReader(r.new_mode)
                  /\ writer' = StrategyWriter(r.new_mode)
                  /\ writer_logs' = <<>>
                  /\ audit_log' = Append(audit_log, ModeSwitchRecord(r.user, r.new_mode, r.reason))
                  /\ mode' = r.new_mode
                  /\ last_switch_time' = current_time
             ELSE UNCHANGED ctrl_vars
    /\ pc' = [pc EXCEPT ![t] = "idle"]
    /\ UNCHANGED <<req, now, sim_vars, wcall, loop_vars, tool_vars>>

\* lines 181-223 and the release of the lock on leaving the `async with`
Body(t) ==
    /\ pc[t] = "locked"
    /\ LET r == req[t]
           current_time == now
       IN /\ outcome' = [outcome EXCEPT ![t] = SwitchOutcome(r, current_time)]
          /\ IF Commits(r, current_time)
             THEN /\ reader' = StrategyReader(r.new_mode)
                  /\ writer' = StrategyWriter(r.new_mode)
                  /\ writer_logs' = <<>>
                  /\ audit_log' = Append(audit_log, ModeSwitchRecord(r.user, r.new_mode, r.reason))
                  /\ mode' = r.new_mode
                  /\ last_switch_time' = current_time
             ELSE UNCHANGED ctrl_vars
    /\ lock' = IF lock = t THEN NoTask ELSE lock
    /\ pc' = [pc EXCEPT ![t] = "idle"]
    /\ UNCHANGED <<req, now, sim_vars, wcall, loop_vars, tool_vars>>

\* Time passes; the body of switch_mode never suspends, so the clock is
\* read as not ticking while the lock is held
Advance ==
    /\ now < MaxTime
    /\ lock = NoTask
    /\ now' = now + 1
    /\ UNCHANGED <<ctrl_vars, task_vars, sim_vars, wcall, loop_vars, tool_vars>>

----------------------------------------------------------------------------
(* DataSimulator control operations (simulator.py)                         *)

\* variant: every call raises the lance further
emergency_stop_raising(s) ==
    [s EXCEPT !.is_emergency_stop = TRUE,
              !.lance_height_mm = @ + (SafeLanceHeight - DefaultLanceHeight),
              !.oxygen_flow_nm3_min = 0]

\* DataSimulator.emergency_stop, lines 86-92
emergency_stop(s) ==
    [s EXCEPT !.is_emergency_stop = TRUE,
              !.lance_height_mm = SafeLanceHeight,
              !.oxygen_flow_nm3_min = 0]

\* DataSimulator.resume, lines 94-98
resume(s) ==
    [s EXCEPT !.is_emergency_stop = FALSE,
              !.lance_height_mm = DefaultLanceHeight,
              !.oxygen_flow_nm3_min = DefaultOxygenFlow]

\* control/emergency_stop of the data server calls the simulator directly
EmergencyStop ==
    /\ sim_state' = emergency_stop(sim_state)
    /\ UNCHANGED <<sim_state_id, ctrl_vars, task_vars, now, wcall, loop_vars, tool_vars>>

\* control/resume of the data server
Resume ==
    /\ sim_state' = resume(sim_state)
    /\ UNCHANGED <<sim_state_id, ctrl_vars, task_vars, now, wcall, loop_vars, tool_vars>>

----------------------------------------------------------------------------
(* SoftSensor (soft_sensor.py)                                             *)

\* lines 16-18, degC and degC/min
TEMP_MIN == 1200
TEMP_MAX == 1550
TEMP_MAX_CHANGE_RATE == 50

\* energy_coeffs, lines 27-31
base_loss == -5
si_heat == 20
c_heat == 10

\* line 160, degC
DefaultTemp == 1300

\* confidences, in hundredths
ConfNormal == 100
ConfOutOfRange == 0
ConfRateExceeded == 20
ConfMechanism == 85
ConfDefault == 10

Abs(x) == IF x < 0 THEN -x ELSE x

\* variant: the rate check also fails a change of exactly the maximum rate
RateExceeded_inclusive(last_temp, current_temp, dt_s) ==
    Abs(current_temp - last_temp) * 60 >= Deg(TEMP_MAX_CHANGE_RATE) * dt_s

\* lines 52-53: abs(current_temp - last_valid_temp) / (dt_s / 60.0) > 50
RateExceeded(last_temp, current_temp, dt_s) ==
    Abs(current_temp - last_temp) * 60 > Deg(TEMP_MAX_CHANGE_RATE) * dt_s

\* SoftSensor.validate_temperature, lines 33-59, on a sensor whose
\* last_valid_temp is last
validate_temperature(last, current_temp, dt_s) ==
    IF ~(Deg(TEMP_MIN) <= current_temp /\ current_temp <= Deg(TEMP_MAX))
    THEN [is_valid |-> FALSE, reason |-> "out_of_range", confidence |-> ConfOutOfRange]
    ELSE IF last # None /\ dt_s > 0 /\ RateExceeded(last[1], current_temp, dt_s)
    THEN [is_valid |-> FALSE, reason |-> "rate_exceeded", confidence |-> ConfRateExceeded]
    ELSE [is_valid |-> TRUE, reason |-> "normal", confidence |-> ConfNormal]

\* SoftSensor.estimate_temperature, lines 61-81; si_rate and c_rate are in
\* 1/PctScale percent per minute
estimate_temperature(last_temp, si_rate, c_rate, dt_s) ==
    LET heat_input == si_rate * si_heat + c_rate * c_heat
        net_change == ((heat_input + base_loss * PctScale) * dt_s * TempScale)
                         \div (60 * PctScale)
    IN last_temp + net_change

\* variant: a reconstruction leaves the reference where it was
ReferenceAfterEstimate_kept(last, estimated) == last

\* line 157: self.last_valid_temp = estimated
ReferenceAfterEstimate(last, estimated) == Some(estimated)

\* SoftSensor.process, lines 128-164: the dict returned and the sensor's
\* last_valid_temp afterwards
process(last, raw_temp, si_rate, c_rate, dt_s) ==
    LET validation == validate_temperature(last, raw_temp, dt_s)
        result == [ raw_value         |-> raw_temp,
                    is_valid          |-> validation.is_valid,
                    estimated_value   |-> raw_temp,
                    correction_source |-> "none",
                    confidence        |-> validation.confidence ]
    IN IF validation.is_valid
       THEN [ result |-> result, last_valid_temp |-> Some(raw_temp) ]
       ELSE IF last # None
       THEN LET estimated == estimate_temperature(last[1], si_rate, c_rate, dt_s)
            IN [ result |-> [result EXCEPT !.estimated_value = estimated,
                                           !.correction_source = "mechanism_inference",
                                           !.confidence = ConfMechanism],
                 last_valid_temp |-> ReferenceAfterEstimate(last, estimated) ]
       ELSE [ result |-> [result EXCEPT !.estimated_value = Deg(DefaultTemp),
                                        !.correction_source = "default_fallback",
                                        !.confidence = ConfDefault],
              last_valid_temp |-> last ]

\* before any call was made
NoResult ==
    [ raw_value |-> 0, is_valid |-> TRUE, estimated_value |-> 0,
      correction_source |-> "unset", confidence |-> 0 ]

NoSensorCall ==
    [ raw_temp |-> 0, si_rate |-> 0, c_rate |-> 0, dt_s |-> 0, reference |-> None,
      validation |-> [is_valid |-> TRUE, reason |-> "unset", confidence |-> 0] ]

\* the arguments of a process() call, the reference it found and what its
\* validate_temperature call answered
SensorCall(last, raw_temp, si_rate, c_rate, dt_s) ==
    [ raw_temp |-> raw_temp, si_rate |-> si_rate, c_rate |-> c_rate, dt_s |-> dt_s,
      reference |-> last,
      validation |-> validate_temperature(last, raw_temp, dt_s) ]

\* a caller runs soft_sensor.process(raw_temp, si_rate, c_rate, dt_s);
\* reconstructions are followed while the reference stays within MaxDrift
\* tenths of a degC of one of the readings
Process(readings, raw_temp, si_rate, c_rate, dt_s) ==
    LET r == process(last_valid_temp, raw_temp, si_rate, c_rate, dt_s)
    IN /\ r.last_valid_temp # None =>
             \E x \in readings : Abs(r.last_valid_temp[1] - x) * 10 <= Deg(MaxDrift)
       /\ last_valid_temp' = r.last_valid_temp
       /\ sensor_result' = r.result
       /\ sensor_call' = SensorCall(last_valid_temp, raw_temp, si_rate, c_rate, dt_s)
       /\ UNCHANGED <<ctrl_vars, task_vars, now, sim_vars, wcall,
                      heat_efficiency_factor, payload, fanout_vars, stream_ts, tool_vars>>

\* simulator.py line 219: the run reset installs a new SoftSensor()
NewSoftSensor ==
    /\ last_valid_temp # None
    /\ last_valid_temp' = None
    /\ UNCHANGED <<ctrl_vars, task_vars, now, sim_vars, wcall, sensor_result,
                   sensor_call, heat_efficiency_factor, payload, fanout_vars, stream_ts, tool_vars>>

----------------------------------------------------------------------------
(* DataSimulator: the tick (simulator.py lines 100-278)                    *)

Max(a, b) == IF a >= b THEN a ELSE b
Min(a, b) == IF a <= b THEN a ELSE b

\* round(x / d) for a whole number x of units and d units per rounded step
RoundDiv(x, d) == (2 * x + d) \div (2 * d)

\* variant: only the first sampling window exists
SampleWindow_firstOnly(t) ==
    IF TscFirstTick <= t /\ t <= TscLastTick THEN Some(20) ELSE None

\* lines 196-197: round(time_min, 1) in tenths of a minute when it lies in
\* one of the two sampling windows, None otherwise
SampleWindow(t) ==
    IF TscFirstTick <= t /\ t <= TscLastTick THEN Some(20)
    ELSE IF TsoFirstTick <= t /\ t <= TsoLastTick THEN Some(70)
    ELSE None

\* variant: the lance is raised and lowered one tick late
LanceScript_late(t) ==
    IF t <= LanceRaiseTick THEN 1100
    ELSE IF t <= LanceLowerTick THEN 1200
    ELSE 1000

\* lines 186-191: the scripted lance height
LanceScript(t) ==
    IF t < LanceRaiseTick THEN 1100
    ELSE IF t < LanceLowerTick THEN 1200
    ELSE 1000

\* DataSimulator._reset_state, lines 207-219, with the three random draws:
\* the new state object and the evolved heat efficiency
reset_state(ts, hef, draw) ==
    [ state |-> [SimStateAt(ts) EXCEPT !.temp_c = Deg(1280) + draw.temp,
                                       !.si_pct = 2500 + draw.si],
      heat_efficiency_factor |-> Min(980, Max(850, hef + draw.correction)) ]

\* variant: a stopped tick also advances the process clock
stopped_tick_advancing(s, ts, dt_s) ==
    [s EXCEPT !.last_ts = ts,
              !.time_min = @ + dt_s,
              !.temp_c = @ - (TempScale * dt_s) \div 600]

\* lines 114-119: the tick of a stopped process
stopped_tick(s, ts, dt_s) ==
    [s EXCEPT !.last_ts = ts,
              !.temp_c = @ - (TempScale * dt_s) \div 600]

\* lines 131-205: the tick of a running process that is not reset; t is the
\* advanced time_min, noise the three draws of a sub-lance sample
running_tick(s, hef, ts, t, dt_s, noise) ==
    LET F == 100 * TempScale
        \* rate constants in 1/10000 per minute
        k_si == (k_si_base * reaction_rate_mod_default) \div 100
        k_mn == (k_mn_base * reaction_rate_mod_default) \div 100
        k_v0 == (k_v_base * reaction_rate_mod_default) \div 100
        k_c0 == k_c_base * 10
        temp_factor == s.temp_c - Deg(temp_critical_v_c_switch)
        k_v == IF temp_factor > 0
               THEN (k_v0 * Max(F \div 10, F - 2 * temp_factor)) \div F
               ELSE k_v0
        k_c == IF temp_factor > 0
               THEN (k_c0 * (F + 5 * temp_factor)) \div F
               ELSE k_c0
        d_si == (k_si * s.si_pct * dt_s) \div (60 * 10000)
        d_mn == (k_mn * s.mn_pct * dt_s) \div (60 * 10000)
        d_v  == (k_v * s.v_pct * dt_s) \div (60 * 10000)
        d_c  == (k_c * s.c_pct * dt_s) \div (60 * 10000)
        si == Max(100, s.si_pct - d_si)
        mn == Max(500, s.mn_pct - d_mn)
        v  == Max(500, s.v_pct - d_v)
        c  == Max(30000, s.c_pct - d_c)
        \* degC per percent, times the efficiency in thousandths
        heat_gen == ((d_si * 180 + d_mn * 60 + d_v * 120 + d_c * 50) * hef
                        * (TempScale \div 100)) \div ((PctScale \div 100) * 1000)
        heat_loss == (s.temp_c * dt_s) \div (2 * 60 * 1400)
        cooling == /\ CoolantFirstTick <= t /\ t <= CoolantLastTick
                   /\ s.coolant_added_kg < 1000
        coolant_effect == IF cooling THEN Deg(25) ELSE 0
        temp == s.temp_c + (heat_gen - heat_loss - coolant_effect)
        win == SampleWindow(t)
        sampling == /\ win # None
                    /\ \/ s.latest_sample = None
                       \/ Abs(s.latest_sample[1].time - win[1]) > 5
    IN [s EXCEPT !.time_min = t,
                 !.last_ts = ts,
                 !.d_si = d_si,
                 !.d_c = d_c,
                 !.si_pct = si,
                 !.mn_pct = mn,
                 !.v_pct = v,
                 !.c_pct = c,
                 !.coolant_added_kg = IF cooling THEN @ + 50 ELSE @,
                 !.temp_c = temp,
                 !.lance_height_mm = LanceScript(t),
                 !.latest_sample =
                     IF sampling
                     THEN Some([ time |-> win[1],
                                 temp |-> temp + noise.temp,
                                 C    |-> Max(100, c + noise.C),
                                 V    |-> Max(10, v + noise.V) ])
                     ELSE @]

\* variant: the run is reset one tick later
update_physics_lateReset(s, hef, ts, dt_s, noise, draw) ==
    IF s.is_emergency_stop
    THEN [ state |-> stopped_tick(s, ts, dt_s),
           heat_efficiency_factor |-> hef, reset |-> FALSE ]
    ELSE IF s.time_min + dt_s > ResetTick
    THEN [ state |-> reset_state(ts, hef, draw).state,
           heat_efficiency_factor |-> reset_state(ts, hef, draw).heat_efficiency_factor,
           reset |-> TRUE ]
    ELSE [ state |-> running_tick(s, hef, ts, s.time_min + dt_s, dt_s, noise),
           heat_efficiency_factor |-> hef, reset |-> FALSE ]

\* DataSimulator._update_physics, lines 110-205: the state object, the heat
\* efficiency and whether the run was reset
update_physics(s, hef, ts, dt_s, noise, draw) ==
    IF s.is_emergency_stop
    THEN [ state |-> stopped_tick(s, ts, dt_s),
           heat_efficiency_factor |-> hef, reset |-> FALSE ]
    ELSE IF s.time_min + dt_s >= ResetTick
    THEN [ state |-> reset_state(ts, hef, draw).state,
           heat_efficiency_factor |-> reset_state(ts, hef, draw).heat_efficiency_factor,
           reset |-> TRUE ]
    ELSE [ state |-> running_tick(s, hef, ts, s.time_min + dt_s, dt_s, noise),
           heat_efficiency_factor |-> hef, reset |-> FALSE ]

\* variant: the snapshot reports the raw reading whatever the sensor said
SnapshotTemperature_raw(result) == result.raw_value

\* line 253: estimated_value if not is_valid else raw_value
SnapshotTemperature(result) ==
    IF ~result.is_valid THEN result.estimated_value ELSE result.raw_value

\* DataSimulator._build_payload, lines 221-272: the snapshot, and what the
\* soft sensor call returned and left behind.  Rounded numbers are whole
\* numbers of their last decimal place.
build_payload(s, hef, last, dt_s) ==
    LET si_rate == IF dt_s > 0 THEN (s.d_si * 60) \div dt_s ELSE 0
        c_rate == IF dt_s > 0 THEN (s.d_c * 60) \div dt_s ELSE 0
        p == process(last, s.temp_c, si_rate, c_rate, dt_s)
    IN [ payload |->
           [ process_time |-> RoundDiv(s.time_min * 100, 60),
             temperature |->
               [ value  |-> RoundDiv(SnapshotTemperature(p.result), TempScale \div 10),
                 status |-> p.result,
                 ts     |-> s.last_ts ],
             chemistry |->
               [ si |-> RoundDiv(s.si_pct, PctScale \div 1000),
                 v  |-> RoundDiv(s.v_pct, PctScale \div 1000),
                 c  |-> RoundDiv(s.c_pct, PctScale \div 100) ],
             lance_height |-> [ value |-> s.lance_height_mm, ts |-> s.last_ts ],
             model_params |->
               [ heat_efficiency |-> hef,
                 reaction_rate_mod |-> reaction_rate_mod_default ],
             is_emergency_stop |-> s.is_emergency_stop,
             latest_sample |-> s.latest_sample ],
         result |-> p.result,
         call |-> SensorCall(last, s.temp_c, si_rate, c_rate, dt_s),
         last_valid_temp |-> p.last_valid_temp ]

\* line 281: asyncio.Queue(maxsize=32)
QueueMaxSize == 32

\* variant: a full queue makes room by dropping its oldest snapshot
Offer_evicting(q, pl) ==
    IF Len(q) >= QueueMaxSize THEN Append(Tail(q), pl) ELSE Append(q, pl)

\* lines 276-278: skip a full queue, put_nowait otherwise
Offer(q, pl) ==
    IF Len(q) >= QueueMaxSize THEN q ELSE Append(q, pl)

\* variant: every queue ever created is offered the snapshot, released or not
broadcast_toAll(qs, subs, pl) ==
    [c \in DOMAIN qs |-> IF qs[c] # None THEN Some(Offer(qs[c][1], pl)) ELSE qs[c]]

\* DataSimulator._broadcast, lines 274-278: qs[c] is the queue of
\* subscription c, subs the subscriptions whose queue is in _subscribers
broadcast(qs, subs, pl) ==
    [c \in DOMAIN qs |-> IF c \in subs THEN Some(Offer(qs[c][1], pl)) ELSE qs[c]]

\* line 101
step_s == 1

\* the draws at the centre of their ranges
NoNoise == [temp |-> 0, C |-> 0, V |-> 0]
CentreDraw == [temp |-> 0, si |-> 0, correction |-> 0]

\* random.uniform(-15, 15), (-0.1, 0.1), (-0.01, 0.01), lines 202-204: drawn
\* only by a tick that takes a sample
Noises == {[temp |-> Deg(-15), C |-> -1000, V |-> -100],
           [temp |-> Deg(15), C |-> 1000, V |-> 100]}
\* random.uniform(-10, 10), (-0.05, 0.05), (-0.02, 0.02), lines 211-215:
\* drawn only by a tick that resets the run
Draws == {[temp |-> Deg(-10), si |-> -500, correction |-> -20],
          [temp |-> Deg(10), si |-> 500, correction |-> 20]}

NoisesFor(s) ==
    IF ~s.is_emergency_stop /\ s.time_min + step_s < ResetTick
          /\ SampleWindow(s.time_min + step_s) # None
    THEN Noises ELSE {NoNoise}

DrawsFor(s) ==
    IF ~s.is_emergency_stop /\ s.time_min + step_s >= ResetTick
    THEN Draws ELSE {CentreDraw}

\* What the loop reads and writes, as one value
Loop ==
    [ now |-> now, state |-> sim_state, id |-> sim_state_id,
      heat_efficiency_factor |-> heat_efficiency_factor,
      last_valid_temp |-> last_valid_temp, result |-> sensor_result,
      call |-> sensor_call, payload |-> payload ]

\* DataSimulator(): lines 63-75, constructed when the clock reads ts
Constructed(ts) ==
    [ now |-> ts, state |-> SimStateAt(ts), id |-> 0,
      heat_efficiency_factor |-> heat_efficiency_default,
      last_valid_temp |-> None, result |-> NoResult,
      call |-> NoSensorCall, payload |-> None ]

\* the one element of a singleton
The(S) == CHOOSE x \in S : TRUE

\* variant: the tick that resets the run builds no snapshot
tick_silentReset(L, noise, draw) ==
    LET ts == L.now + step_s * ClockRes
    IN The({ The({ [ now |-> ts, state |-> u.state,
                     id |-> IF u.reset THEN L.id + 1 ELSE L.id,
                     heat_efficiency_factor |-> u.heat_efficiency_factor,
                     last_valid_temp |-> b.last_valid_temp, result |-> b.result,
                     call |-> b.call,
                     payload |-> IF u.reset /\ L.payload # None
                                 THEN L.payload ELSE Some(b.payload) ]
                   : b \in { build_payload(u.state, u.heat_efficiency_factor,
                                IF u.reset THEN None ELSE L.last_valid_temp, step_s) } })
             : u \in { update_physics(L.state, L.heat_efficiency_factor, ts,
                                      step_s, noise, draw) } })

\* One iteration of _run, lines 103-106: the sleep, then under the lock
\* _update_physics (u) and _build_payload (b), each called once
tick(L, noise, draw) ==
    LET ts == L.now + step_s * ClockRes
    IN The({ The({ [ now |-> ts, state |-> u.state,
                     id |-> IF u.reset THEN L.id + 1 ELSE L.id,
                     heat_efficiency_factor |-> u.heat_efficiency_factor,
                     last_valid_temp |-> b.last_valid_temp, result |-> b.result,
                     call |-> b.call, payload |-> Some(b.payload) ]
                   : b \in { build_payload(u.state, u.heat_efficiency_factor,
                                IF u.reset THEN None ELSE L.last_valid_temp, step_s) } })
             : u \in { update_physics(L.state, L.heat_efficiency_factor, ts,
                                      step_s, noise, draw) } })

\* n iterations with the draws at their centres
RECURSIVE RunFor(_, _)
RunFor(L, n) ==
    IF n = 0 THEN L
    ELSE IF n = 1 THEN tick(L, NoNoise, CentreDraw)
    ELSE LET M == RunFor(L, n \div 2)
         IN IF M.now >= L.now THEN RunFor(M, n - n \div 2) ELSE M

\* The simulator n ticks after construction; stopped: emergency_stop() was
\* called before the first of them
After(n, stopped) ==
    LET L == Constructed(0)
    IN RunFor(IF stopped THEN [L EXCEPT !.state = emergency_stop(@)] ELSE L, n)

\* the snapshots of ticks 1..n
Produced(n) == [k \in 1..n |-> After(k, FALSE).payload[1]]

LoopIs(L) ==
    /\ now = L.now
    /\ sim_state = L.state
    /\ sim_state_id = L.id
    /\ heat_efficiency_factor = L.heat_efficiency_factor
    /\ last_valid_temp = L.last_valid_temp
    /\ sensor_result = L.result
    /\ sensor_call = L.call
    /\ payload = L.payload

\* The behaviours considered follow the loop for MaxTicks ticks from one of
\* these tick counts
StartTicks == {0, 31, 58, 116, 121, 173, 299, 416, 421, 598, LongStopTicks}

InHorizon ==
    \E n \in StartTicks :
        /\ n * step_s * ClockRes <= now
        /\ now < (n + MaxTicks) * step_s * ClockRes

\* One iteration of _run, lines 102-108.  Nothing suspends between leaving
\* the sleep and the end of _broadcast: the state lock has no other user.
Tick(noise, draw) ==
    /\ InHorizon
    /\ \E L \in {tick(Loop, noise, draw)} :
          /\ L.id <= MaxResets
          /\ now' = L.now
          /\ sim_state' = L.state
          /\ sim_state_id' = L.id
          /\ heat_efficiency_factor' = L.heat_efficiency_factor
          /\ last_valid_temp' = L.last_valid_temp
          /\ sensor_result' = L.result
          /\ sensor_call' = L.call
          /\ payload' = L.payload
          /\ queues' = broadcast(queues, subscribers, L.payload[1])
    /\ UNCHANGED <<ctrl_vars, task_vars, wcall, subscribers, received, stream_ts, tool_vars>>

\* the loop task with the draws its tick makes
LoopTask ==
    \E noise \in NoisesFor(sim_state), draw \in DrawsFor(sim_state) : Tick(noise, draw)

\* data_server.py lines 17-28: the /stream generator builds a payload of
\* its own, outside the loop and its lock, then sleeps 1.0 s
StreamData ==
    /\ stream_ts # None => stream_ts[1] + 1 * ClockRes <= now
    /\ LET b == build_payload(sim_state, heat_efficiency_factor, last_valid_temp, 1)
       IN /\ last_valid_temp' = b.last_valid_temp
          /\ sensor_result' = b.result
          /\ sensor_call' = b.call
    /\ stream_ts' = Some(now)
    /\ UNCHANGED <<ctrl_vars, task_vars, now, sim_vars, wcall,
                   heat_efficiency_factor, payload, fanout_vars, tool_vars>>

\* DataSimulator.subscribe, lines 281-282: a client starts iterating
Subscribe(c) ==
    /\ queues[c] = None
    /\ queues' = [queues EXCEPT ![c] = Some(<<>>)]
    /\ subscribers' = subscribers \cup {c}
    /\ UNCHANGED <<ctrl_vars, task_vars, now, sim_vars, wcall,
                   heat_efficiency_factor, sensor_vars, payload, received, stream_ts, tool_vars>>

\* line 285: yield await q.get()
Get(c) ==
    /\ c \in subscribers
    /\ queues[c][1] # <<>>
    /\ received' = [received EXCEPT ![c] = Append(@, Head(queues[c][1]))]
    /\ queues' = [queues EXCEPT ![c] = Some(Tail(@[1]))]
    /\ UNCHANGED <<ctrl_vars, task_vars, now, sim_vars, wcall,
                   heat_efficiency_factor, sensor_vars, payload, subscribers, stream_ts, tool_vars>>

\* lines 286-287: the generator is closed and its finally block runs
Unsubscribe(c) ==
    /\ c \in subscribers
    /\ subscribers' = subscribers \ {c}
    /\ UNCHANGED <<ctrl_vars, task_vars, now, sim_vars, wcall,
                   heat_efficiency_factor, sensor_vars, payload, queues, received,
                   stream_ts, tool_vars>>

\* DataSimulator._reset_state, lines 207-219, as the loop runs it from a
\* tick that did not return at the emergency-stop check (lines 114-119,
\* 127-129), with its draws at their centres
ResetState ==
    /\ ~sim_state.is_emergency_stop
    /\ sim_state_id < MaxResets
    /\ sim_state' = reset_state(now, heat_efficiency_factor, CentreDraw).state
    /\ heat_efficiency_factor' =
          reset_state(now, heat_efficiency_factor, CentreDraw).heat_efficiency_factor
    /\ last_valid_temp' = None
    /\ sim_state_id' = sim_state_id + 1
    /\ UNCHANGED <<ctrl_vars, task_vars, now, wcall, sensor_result, sensor_call,
                   payload, fanout_vars, stream_ts, tool_vars>>

----------------------------------------------------------------------------
(* Readers (mode_control.py lines 18-49, 72-90)                            *)

\* self.sim.state: the object DataSimulator._state refers to at the call
SimStateRef == sim_state_id

\* the fields of the SimState object with identity id; objects the simulator
\* no longer refers to keep no observer, so only the current one has fields
Deref(id) == IF id = sim_state_id THEN sim_state ELSE SimState

\* reader.get_lance_height()
get_lance_height ==
    IF reader = "SimulationDataReader" THEN Deref(SimStateRef).lance_height_mm ELSE 0

\* reader.get_oxygen_flow()
get_oxygen_flow ==
    IF reader = "SimulationDataReader" THEN Deref(SimStateRef).oxygen_flow_nm3_min ELSE 0

----------------------------------------------------------------------------
(* Writers (mode_control.py lines 51-69, 92-144)                           *)

Returned(op, arg, ret) == [op |-> op, arg |-> arg, ret |-> ret]

\* variant: the writer keeps a reference to the state object that a run
\* reset has replaced
WriterStateRef_stale == IF sim_state_id > 0 THEN sim_state_id - 1 ELSE sim_state_id

\* the state object a SimulationControlWriter command assigns to
WriterStateRef == SimStateRef

\* assignment of field values to the object with identity id
Assign(id, s) == IF id = sim_state_id THEN s ELSE sim_state

\* SimulationControlWriter.set_lance_height, lines 55-57
SimulationSetLanceHeight(h) ==
    /\ writer = "SimulationControlWriter"
    /\ sim_state' = Assign(WriterStateRef, [Deref(WriterStateRef) EXCEPT !.lance_height_mm = h])
    /\ wcall' = Returned("set_lance_height", h, "True")
    /\ UNCHANGED <<sim_state_id, ctrl_vars, task_vars, now, loop_vars, tool_vars>>

\* SimulationControlWriter.set_oxygen_flow, lines 59-61
SimulationSetOxygenFlow(f) ==
    /\ writer = "SimulationControlWriter"
    /\ sim_state' = Assign(WriterStateRef, [Deref(WriterStateRef) EXCEPT !.oxygen_flow_nm3_min = f])
    /\ wcall' = Returned("set_oxygen_flow", f, "True")
    /\ UNCHANGED <<sim_state_id, ctrl_vars, task_vars, now, loop_vars, tool_vars>>

\* variant: the writer applies the cooling of the addition itself
SimulationAddCoolant_cooling(material, w) ==
    /\ writer = "SimulationControlWriter"
    /\ sim_state.coolant_added_kg + w <= MaxCoolant
    /\ sim_state' = Assign(WriterStateRef,
          [Deref(WriterStateRef) EXCEPT !.coolant_added_kg = @ + w,
                                        !.temp_c = @ - Deg(25)])
    /\ wcall' = Returned("add_coolant", w, "True")
    /\ UNCHANGED <<sim_state_id, ctrl_vars, task_vars, now, loop_vars, tool_vars>>

\* SimulationControlWriter.add_coolant, lines 63-65
SimulationAddCoolant(material, w) ==
    /\ writer = "SimulationControlWriter"
    /\ sim_state.coolant_added_kg + w <= MaxCoolant
    /\ sim_state' = Assign(WriterStateRef,
          [Deref(WriterStateRef) EXCEPT !.coolant_added_kg = @ + w])
    /\ wcall' = Returned("add_coolant", w, "True")
    /\ UNCHANGED <<sim_state_id, ctrl_vars, task_vars, now, loop_vars, tool_vars>>

\* SimulationControlWriter.emergency_stop, lines 67-69
SimulationEmergencyStop ==
    /\ writer = "SimulationControlWriter"
    /\ sim_state' = emergency_stop(sim_state)
    /\ wcall' = Returned("emergency_stop", 0, "True")
    /\ UNCHANGED <<sim_state_id, ctrl_vars, task_vars, now, loop_vars, tool_vars>>

\* an entry of ValidationControlWriter.logs
LogMsg(cmd, value, material) == [cmd |-> cmd, value |-> value, material |-> material]

\* ValidationControlWriter: what a command does with message msg
ValidationCommand(op, arg, msg) ==
    /\ writer = "ValidationControlWriter"
    /\ Len(writer_logs) < MaxWriterLog
    /\ writer_logs' = Append(writer_logs, msg)
    /\ wcall' = Returned(op, arg, "True")
    /\ UNCHANGED <<mode, reader, writer, audit_log, last_switch_time,
                   sim_vars, task_vars, now, loop_vars, tool_vars>>

\* ValidationControlWriter.set_lance_height, lines 100-104
ValidationSetLanceHeight(h) ==
    ValidationCommand("set_lance_height", h, LogMsg("set_lance_height", h, ""))

\* ValidationControlWriter.set_oxygen_flow, lines 106-110
ValidationSetOxygenFlow(f) ==
    ValidationCommand("set_oxygen_flow", f, LogMsg("set_oxygen_flow", f, ""))

\* ValidationControlWriter.add_coolant, lines 112-116
ValidationAddCoolant(material, w) ==
    ValidationCommand("add_coolant", w, LogMsg("add_coolant", w, material))

\* variant: the shadow writer also stops the simulator
ValidationEmergencyStop_actuates ==
    /\ writer = "ValidationControlWriter"
    /\ Len(writer_logs) < MaxWriterLog
    /\ writer_logs' = Append(writer_logs, LogMsg("emergency_stop", 0, ""))
    /\ wcall' = Returned("emergency_stop", 0, "True")
    /\ sim_state' = emergency_stop(sim_state)
    /\ UNCHANGED <<mode, reader, writer, audit_log, last_switch_time,
                   sim_state_id, task_vars, now, loop_vars, tool_vars>>

\* ValidationControlWriter.emergency_stop, lines 118-122
ValidationEmergencyStop ==
    ValidationCommand("emergency_stop", 0, LogMsg("emergency_stop", 0, ""))

\* variant: the production writer pretends success
ProductionCommand_pretends(op, arg) ==
    /\ writer = "ProductionControlWriter"
    /\ wcall' = Returned(op, arg, "True")
    /\ UNCHANGED <<ctrl_vars, sim_vars, task_vars, now, loop_vars, tool_vars>>

\* ProductionControlWriter: every command raises, lines 132-144
ProductionCommand(op, arg) ==
    /\ writer = "ProductionControlWriter"
    /\ wcall' = Returned(op, arg, "NotImplementedError")
    /\ UNCHANGED <<ctrl_vars, sim_vars, task_vars, now, loop_vars, tool_vars>>

ProductionSetLanceHeight(h) == ProductionCommand("set_lance_height", h)

ProductionSetOxygenFlow(f) == ProductionCommand("set_oxygen_flow", f)

ProductionAddCoolant(material, w) == ProductionCommand("add_coolant", w)

ProductionEmergencyStop == ProductionCommand("emergency_stop", 0)

\* controller.writer.<command>(...) through whichever writer is bound
WriterSetLanceHeight(h) ==
    \/ SimulationSetLanceHeight(h)
    \/ ValidationSetLanceHeight(h)
    \/ ProductionSetLanceHeight(h)

WriterSetOxygenFlow(f) ==
    \/ SimulationSetOxygenFlow(f)
    \/ ValidationSetOxygenFlow(f)
    \/ ProductionSetOxygenFlow(f)

WriterAddCoolant(material, w) ==
    \/ SimulationAddCoolant(material, w)
    \/ ValidationAddCoolant(material, w)
    \/ ProductionAddCoolant(material, w)

WriterEmergencyStop ==
    \/ SimulationEmergencyStop
    \/ ValidationEmergencyStop
    \/ ProductionEmergencyStop

WriterCommand ==
    \/ \E h \in Heights : WriterSetLanceHeight(h)
    \/ \E f \in Flows : WriterSetOxygenFlow(f)
    \/ \E m \in Materials, w \in Weights : WriterAddCoolant(m, w)
    \/ WriterEmergencyStop

----------------------------------------------------------------------------
(* KalmanFilter1D, tools/kinetics_simulator.py lines 36-67                  *)
(* Estimates, covariances and noises are in thousandths; the gain K is in  *)
(* thousandths too.                                                        *)

KScale == 1000

\* no filter call was made yet
NoKalmanCall == [op |-> "none", arg |-> 0, x |-> 0, P |-> 0, outcome |-> "none"]

\* KalmanFilter1D.__init__, lines 41-46
KalmanFilter1D(initial_state, initial_covariance, process_noise, measurement_noise) ==
    [ x |-> initial_state, P |-> initial_covariance,
      Q |-> process_noise, R |-> measurement_noise,
      calls |-> 0, last |-> NoKalmanCall ]

\* what a call found before it ran
KalmanCall(f, op, arg, how) ==
    [op |-> op, arg |-> arg, x |-> f.x, P |-> f.P, outcome |-> how]

\* KalmanFilter1D.predict, lines 54-55
predict(f, u) ==
    [f EXCEPT !.x = f.x + u, !.P = f.P + f.Q,
              !.calls = @ + 1, !.last = KalmanCall(f, "predict", u, "return")]

\* line 64: K = P / (P + R)
Gain(P, R) == (P * KScale) \div (P + R)

\* KalmanFilter1D.update, lines 64-67: the division of line 64 raises
\* ZeroDivisionError when P + R = 0, before anything is assigned
update(f, z) ==
    IF f.P + f.R = 0
    THEN [f EXCEPT !.calls = @ + 1,
                   !.last = KalmanCall(f, "update", z, "ZeroDivisionError")]
    ELSE [f EXCEPT !.x = f.x + (Gain(f.P, f.R) * (z - f.x)) \div KScale,
                   !.P = ((KScale - Gain(f.P, f.R)) * f.P) \div KScale,
                   !.calls = @ + 1,
                   !.last = KalmanCall(f, "update", z, "return")]

----------------------------------------------------------------------------
(* calculate_kinetics_derivatives, tools/kinetics_simulator.py lines 71-161 *)
(* Contents are in thousandths of a percent, the stirring factor in tenths, *)
(* the bath in units of 10 kg, rates in 1e-7 percent per second, oxygen in  *)
(* hundredths of a mol per second, molar masses in hundredths of g/mol.    *)

M_C  == 1201
M_Si == 2809
M_V  == 5094
M_Ti == 4787
M_Fe == 5585

\* line 102 at the bath temperatures considered: 1/(1 + exp(-(T_c - 1380)/50)),
\* in thousandths
Sigmoid(T_c) ==
    CASE T_c = 1280 -> 119
      [] T_c = 1380 -> 500
      [] T_c = 1480 -> 881

\* lines 113-117: the oxygen an oxidation rate asks for, num/den mol O2 per
\* mol of the element
Demand(rate, bath, M, num, den) ==
    (((rate * bath) \div (10 * M)) * num) \div den

\* variant: a demand is met in full whatever the supply
Scaled_unlimited(demand, total_demand, mols_o2_per_s) == demand

\* lines 121-129: factor = supply / total demand when the demand exceeds
\* the supply, applied to one demand
Scaled(demand, total_demand, mols_o2_per_s) ==
    IF total_demand > mols_o2_per_s
    THEN (demand * mols_o2_per_s) \div total_demand
    ELSE demand

\* lines 132-135: the content rate of an element that takes real_o2, with
\* num/den mol of the element per mol O2
ContentRate(real_o2, bath, M, num, den) ==
    -((((real_o2 * num) \div den) * M * 10) \div bath)

\* no call was made yet
NoKinetics == [called |-> FALSE]

\* calculate_kinetics_derivatives, lines 81-161, as far as oxygen goes
calculate_kinetics_derivatives(y, bath_weight_kg, mols_o2_per_s, stirring_factor) ==
    LET sigmoid == Sigmoid(y.T_c)
        r_si == 3 * stirring_factor * Max(0, y.Si)
        r_ti == 3 * stirring_factor * Max(0, y.Ti)
        r_v  == (2 * stirring_factor * Max(0, y.V) * (1500 - sigmoid)) \div 1000
        r_c  == (((5 * (10 + stirring_factor) * Max(0, y.C)) \div 20)
                    * (100 + 5 * sigmoid)) \div 1000
        r_fe == 10000
        demand_o2_si == Demand(r_si, bath_weight_kg, M_Si, 1, 1)
        demand_o2_ti == Demand(r_ti, bath_weight_kg, M_Ti, 1, 1)
        demand_o2_v  == Demand(r_v, bath_weight_kg, M_V, 3, 4)
        demand_o2_c  == Demand(r_c, bath_weight_kg, M_C, 1, 2)
        demand_o2_fe == Demand(r_fe, bath_weight_kg, M_Fe, 1, 2)
        total_demand == demand_o2_si + demand_o2_ti + demand_o2_v
                           + demand_o2_c + demand_o2_fe
        real_o2_si == Scaled(demand_o2_si, total_demand, mols_o2_per_s)
        real_o2_ti == Scaled(demand_o2_ti, total_demand, mols_o2_per_s)
        real_o2_v  == Scaled(demand_o2_v, total_demand, mols_o2_per_s)
        real_o2_c  == Scaled(demand_o2_c, total_demand, mols_o2_per_s)
    IN [ called |-> TRUE,
         y |-> y, bath_weight_kg |-> bath_weight_kg,
         mols_o2_per_s |-> mols_o2_per_s, stirring_factor |-> stirring_factor,
         demand |-> [Si |-> demand_o2_si, Ti |-> demand_o2_ti, V |-> demand_o2_v,
                     C |-> demand_o2_c, Fe |-> demand_o2_fe],
         total_demand |-> total_demand,
         real_o2 |-> [Si |-> real_o2_si, Ti |-> real_o2_ti, V |-> real_o2_v,
                      C |-> real_o2_c],
         dSidt |-> ContentRate(real_o2_si, bath_weight_kg, M_Si, 1, 1),
         dTidt |-> ContentRate(real_o2_ti, bath_weight_kg, M_Ti, 1, 1),
         dVdt  |-> ContentRate(real_o2_v, bath_weight_kg, M_V, 4, 3),
         dCdt  |-> ContentRate(real_o2_c, bath_weight_kg, M_C, 2, 1) ]

----------------------------------------------------------------------------
(* calculate_equilibrium_state, tools/equilibrium_model.py lines 34-146     *)
(* Contents are in thousandths of a percent, masses in kg, amounts in mol, *)
(* molar masses in hundredths of g/mol.                                    *)

M_SI == 2809
M_TI == 4787

\* lines 48-51: the weights the recipe does not give, in tonnes
iron_weight_t == 100
scrap_weight_t == 10
ore_weight_t == 1

\* the least whole number not below x * num / den
CeilMul(x, num, den) == (x * num + den - 1) \div den

\* lines 57-66 and 97: mol of an element at content pct in the iron, plus
\* extra_kg from the scrap
Mols(pct, extra_kg, M) ==
    ((((iron_weight_t * pct) \div 100) + extra_kg) * 100000) \div M

\* lines 70-90: mol O2 from the blown oxygen (22.4 l/mol) and from the ore
\* (30 % oxygen by weight)
OxygenMols(oxygen_flow_rate_m3h, duration_s) ==
    (oxygen_flow_rate_m3h * duration_s * 25) \div 2016 + ore_weight_t * 9375

\* lines 108-112, 119-123, 134-138: one element's turn: with oxygen left it
\* takes what it needs or what is there, at num/den mol O2 per mol
Turn(o2, mols, num, den) ==
    IF o2 > 0
    THEN LET react == Min(mols, (o2 * den) \div num)
         IN [react |-> react, o2 |-> o2 - CeilMul(react, num, den)]
    ELSE [react |-> 0, o2 |-> o2]

\* no call was made yet
NoEquilibrium == [called |-> FALSE]

\* calculate_equilibrium_state, lines 92-146: the oxygen balance
calculate_equilibrium_state(inp) ==
    LET total_o2_mols == OxygenMols(inp.oxygen_flow_rate_m3h, inp.duration_s)
        mols_si == Mols(inp.Si, 0, M_SI)
        mols_ti == Mols(inp.Ti, 0, M_TI)
        mols_v  == Mols(inp.V, 0, M_V)
        mols_c  == Mols(inp.C, scrap_weight_t, M_C)
        \* lines 100-101: silicon takes its turn unconditionally
        react_si_mols == Min(mols_si, total_o2_mols)
        after_si == total_o2_mols - react_si_mols
        ti == Turn(after_si, mols_ti, 1, 1)
        v  == Turn(ti.o2, mols_v, 3, 4)
        c  == Turn(v.o2, mols_c, 11, 20)
        react_fe_mols == IF c.o2 > 0 THEN c.o2 * 2 ELSE 0
    IN [ called |-> TRUE, inp |-> inp,
         total_o2_mols |-> total_o2_mols,
         mols  |-> [Si |-> mols_si, Ti |-> mols_ti, V |-> mols_v, C |-> mols_c],
         react |-> [Si |-> react_si_mols, Ti |-> ti.react, V |-> v.react,
                    C |-> c.react, Fe |-> react_fe_mols],
         o2_after |-> [Si |-> after_si, Ti |-> ti.o2, V |-> v.o2, C |-> c.o2],
         final_mols |-> [Si |-> mols_si - react_si_mols, Ti |-> mols_ti - ti.react,
                         V |-> mols_v - v.react, C |-> mols_c - c.react] ]

----------------------------------------------------------------------------
(* recommend_lance_profile, tools/lance_profile.py lines 6-52               *)
(* Silicon contents are in hundredths of a percent, times in tenths of a   *)
(* minute, heights in mm.                                                  *)

LanceStep(start_min, end_min, lance_height_mm) ==
    [start_min |-> start_min, end_min |-> end_min, lance_height_mm |-> lance_height_mm]

\* lines 29-40: the two heights of the table
ProcessHeights(si_content_pct) ==
    IF si_content_pct < 15
    THEN [process_h |-> 1500, end_h |-> 1400]
    ELSE IF 15 <= si_content_pct /\ si_content_pct <= 30
    THEN [process_h |-> 1400, end_h |-> 1300]
    ELSE [process_h |-> 1300, end_h |-> 1300]

\* recommend_lance_profile, lines 22-52: the mode of line 23 and the three
\* steps of lines 26, 43 and 46, whatever the silicon content
recommend_lance_profile(si_content_pct) ==
    LET h == ProcessHeights(si_content_pct)
    IN [ si_content_pct |-> si_content_pct,
         mode |-> "low_high_low",
         steps |-> << LanceStep(0, 5, 1200),
                      LanceStep(5, 55, h.process_h),
                      LanceStep(55, 60, h.end_h) >>,
         endgame_action |-> h.end_h ]

\* no call was made yet
NoLanceProfile ==
    [si_content_pct |-> -1, mode |-> "none", steps |-> <<>>, endgame_action |-> 0]

----------------------------------------------------------------------------
(* CoordinatorAgent.run, agents/team.py lines 200-347                       *)
(* A context value is absent, a number (silicon in hundredths of a        *)
(* percent, temperature in degC) or something that is not a number.        *)

Absent == [kind |-> "absent", v |-> 0]
Number(v) == [kind |-> "number", v |-> v]
Text == [kind |-> "text", v |-> 0]

\* schemas.py: IronInitialAnalysis.Si in [0, 5], InitialChargeInputs
\* .iron_temp_c in [1100, 1600]; pydantic raises ValidationError otherwise
ChargingFails(si, temp) ==
    \/ si.kind # "number"
    \/ si.v < 0 \/ si.v > 500
    \/ temp.kind # "number"
    \/ temp.v < 1100 \/ temp.v > 1600

\* lines 174-176 of KnowledgeAgent._execute: the comparisons si < 0.20 and
\* temp > 1350 are made when the message hits nothing; a value that is not
\* a number raises TypeError there
KnowledgeRaises(si, temp, message_hits) ==
    /\ ~message_hits
    /\ si.kind = "text" \/ temp.kind = "text"

\* line 332: {si:.3f} and {temp:.1f} raise ValueError on a value that is
\* not a number
FormatRaises(si, temp) == si.kind = "text" \/ temp.kind = "text"

\* no call was made yet
NoChat == [called |-> FALSE]

\* lines 283-301: the dynamic simulation is skipped in safe mode
SimulationStep(safe_mode_active) == IF safe_mode_active THEN "skipped" ELSE "ran"

\* CoordinatorAgent.run, lines 200-347
run(si, temp, is_one_can, message_hits) ==
    LET base == [ called |-> TRUE, si |-> si, temp |-> temp,
                  is_one_can |-> is_one_can, message_hits |-> message_hits,
                  charging |-> "not_run", simulation |-> "not_run",
                  lance_step |-> "not_run", knowledge |-> "not_run",
                  safe_mode |-> FALSE, recipe |-> "none",
                  outcome |-> "return", trace_id |-> TRUE ]
        failed == ChargingFails(si, temp)
        after_lance ==
            [base EXCEPT
               !.charging = IF failed THEN "fallback" ELSE "ran",
               !.recipe = IF failed THEN "emergency" ELSE "calculated",
               !.safe_mode = failed,
               !.simulation = SimulationStep(failed),
               !.lance_step = IF si.kind = "text" THEN "fallback" ELSE "ran"]
    IN IF si.kind = "absent" \/ temp.kind = "absent" \/ is_one_can = "absent"
       THEN base
       ELSE IF KnowledgeRaises(si, temp, message_hits)
       THEN [after_lance EXCEPT !.knowledge = "raised", !.outcome = "TypeError",
                                !.trace_id = FALSE]
       ELSE IF FormatRaises(si, temp)
       THEN [after_lance EXCEPT !.knowledge = "ran", !.outcome = "ValueError",
                                !.trace_id = FALSE]
       ELSE [after_lance EXCEPT !.knowledge = "ran"]

----------------------------------------------------------------------------
(* POST /api/system/mode, main.py lines 48-61                               *)

\* no request was made yet
NoHttp == [called |-> FALSE]

\* lines 55-57: switch_mode(...) is called without await, which only makes
\* a coroutine object: nothing of its body runs and nothing is raised, and
\* the handler answers ok with the mode as it is
Answer(target, auth_token) ==
    [status |-> 200, new_mode |-> mode]

\* set_system_mode, lines 54-61
SetSystemMode(target, auth_token) ==
    /\ LET a == Answer(target, auth_token)
       IN /\ http' = [ called |-> TRUE, target |-> target, token |-> auth_token,
                       status |-> a.status, answered_mode |-> a.new_mode,
                       mode_before |-> mode, mode_after |-> a.new_mode ]
          /\ mode' = a.new_mode
    /\ UNCHANGED <<reader, writer, writer_logs, audit_log, last_switch_time,
                   task_vars, now, sim_vars, wcall, loop_vars,
                   kf, kin, eq, lance, chat, graph>>

----------------------------------------------------------------------------
(* Calls of the tools                                                      *)

MaxCalls == 3          \* filter calls followed

KalmanPredict(u) ==
    /\ kf.calls < MaxCalls
    /\ kf' = predict(kf, u)
    /\ UNCHANGED <<ctrl_vars, task_vars, now, sim_vars, wcall, loop_vars,
                   kin, eq, lance, chat, http, graph>>

KalmanUpdate(z) ==
    /\ kf.calls < MaxCalls
    /\ kf' = update(kf, z)
    /\ UNCHANGED <<ctrl_vars, task_vars, now, sim_vars, wcall, loop_vars,
                   kin, eq, lance, chat, http, graph>>

Kinetics(y, bath_weight_kg, mols_o2_per_s, stirring_factor) ==
    /\ kin' = calculate_kinetics_derivatives(y, bath_weight_kg, mols_o2_per_s,
                                             stirring_factor)
    /\ UNCHANGED <<ctrl_vars, task_vars, now, sim_vars, wcall, loop_vars,
                   kf, eq, lance, chat, http, graph>>

Equilibrium(inp) ==
    /\ eq' = calculate_equilibrium_state(inp)
    /\ UNCHANGED <<ctrl_vars, task_vars, now, sim_vars, wcall, loop_vars,
                   kf, kin, lance, chat, http, graph>>

RecommendLanceProfile(si_content_pct) ==
    /\ lance' = recommend_lance_profile(si_content_pct)
    /\ UNCHANGED <<ctrl_vars, task_vars, now, sim_vars, wcall, loop_vars,
                   kf, kin, eq, chat, http, graph>>

CoordinatorRun(si, temp, is_one_can, message_hits) ==
    /\ chat' = run(si, temp, is_one_can, message_hits)
    /\ UNCHANGED <<ctrl_vars, task_vars, now, sim_vars, wcall, loop_vars,
                   kf, kin, eq, lance, http, graph>>

\* before any tool was called
----------------------------------------------------------------------------
(* The agent workflow graph (agents/core.py) and its endpoints (main.py)   *)

target_temp == 1380        \* degC
TempDeviationLimit == 15   \* degC
MaxMessages == 9           \* messages a thread collects before its cycle is cut
MaxDecisions == 2          \* POST /api/graph/approve requests followed

\* A recipe is written as the final temperature simulate_blow_path computes
\* for it, the one thing of a recipe the routing of the graph depends on:
\* 16 and 15 degC below the target, the target, 15 and 16 degC above it
GraphRecipes == {1364, 1365, 1380, 1395, 1396}
\* action "hold" is none of the two the endpoint names
GraphActions == {"approve", "modify", "hold"}

\* the thread before POST /api/graph/run
NoGraph ==
    [ at |-> "idle", paused |-> FALSE, recipe |-> None, l2_res |-> None,
      approval_status |-> None, messages |-> <<>>, decisions |-> 0 ]

\* variant: the deviation is tested without abs()
check_deviation_signed(state) ==
    IF state.l2_res = None THEN "critic"
    ELSE IF state.approval_status = Some("approved") THEN "critic"
    ELSE IF state.l2_res[1] - target_temp > TempDeviationLimit THEN "human_approval"
    ELSE "critic"

\* check_deviation, lines 108-124
check_deviation(state) ==
    IF state.l2_res = None THEN "critic"
    ELSE IF state.approval_status = Some("approved") THEN "critic"
    ELSE IF Abs(state.l2_res[1] - target_temp) > TempDeviationLimit THEN "human_approval"
    ELSE "critic"

\* route_approval, lines 176-179
route_approval(state) ==
    IF state.approval_status = Some("modified") THEN "simulation" ELSE "critic"

GraphUnchanged ==
    UNCHANGED <<ctrl_vars, task_vars, now, sim_vars, wcall, loop_vars,
                kf, kin, eq, lance, chat, http>>

\* run_graph, main.py lines 89-105: a new thread is started at START, whose
\* edge leads to charging
RunGraph ==
    /\ graph.at = "idle"
    /\ graph' = [graph EXCEPT !.at = "charging"]
    /\ GraphUnchanged

\* charging_node, lines 73-91, computing recipe r
ChargingNode(r) ==
    /\ graph.at = "charging"
    /\ graph' = [graph EXCEPT !.recipe = Some(r),
                              !.messages = Append(@, "charging"),
                              !.at = "simulation"]
    /\ GraphUnchanged

\* simulation_node, lines 93-106, and the conditional edge of lines 167-174
SimulationNode ==
    /\ graph.at = "simulation"
    /\ Len(graph.messages) < MaxMessages
    /\ \E s \in {[graph EXCEPT !.l2_res = Some(graph.recipe[1]),
                               !.messages = Append(@, "simulation")]} :
          graph' = [s EXCEPT !.at = check_deviation(s)]
    /\ GraphUnchanged

\* human_approval_node, lines 126-133, and the conditional edge of lines
\* 181-188; NodeInterrupt leaves the thread paused before the node
HumanApprovalNode ==
    /\ graph.at = "human_approval"
    /\ ~graph.paused
    /\ Len(graph.messages) < MaxMessages
    /\ graph' =
          IF graph.approval_status = Some("approved")
          THEN [graph EXCEPT !.messages = Append(@, "approved"),
                             !.at = route_approval(graph)]
          ELSE IF graph.approval_status = Some("modified")
          THEN [graph EXCEPT !.messages = Append(@, "modified"),
                             !.at = route_approval(graph)]
          ELSE [graph EXCEPT !.paused = TRUE]
    /\ GraphUnchanged

\* critic_node, lines 135-143, and the edge of line 190
CriticNode ==
    /\ graph.at = "critic"
    /\ graph' = [graph EXCEPT !.messages = Append(@, "critic"), !.at = "save_context"]
    /\ GraphUnchanged

\* save_context_node, lines 145-153, and the edge of line 191
SaveContextNode ==
    /\ graph.at = "save_context"
    /\ graph' = [graph EXCEPT !.messages = Append(@, "save_context"), !.at = "END"]
    /\ GraphUnchanged

\* approve_graph, main.py lines 138-151, for a thread whose last request
\* returned: update_state and the resumption. The thread resumes at the
\* pending human_approval or, the update being applied as a write of the
\* simulation node, at the branch check_deviation takes on the updated
\* state; a finished thread has nothing to resume
ApproveGraph(action, recipe) ==
    /\ graph.paused \/ graph.at = "END"
    /\ graph.decisions < MaxDecisions
    /\ \E s \in {[graph EXCEPT
                    !.approval_status =
                        Some(IF action = "approve" THEN "approved" ELSE "modified"),
                    !.recipe = IF action = "modify" /\ recipe # None THEN recipe ELSE @,
                    !.decisions = @ + 1,
                    !.paused = FALSE]} :
          \E next \in IF graph.at = "END" THEN {"END"}
                      ELSE {"human_approval", check_deviation(s)} :
             graph' = [s EXCEPT !.at = next]
    /\ GraphUnchanged

InitTools ==
    /\ kf = KalmanFilter1D(0, 0, 0, 0)
    /\ kin = NoKinetics
    /\ eq = NoEquilibrium
    /\ lance = NoLanceProfile
    /\ chat = NoChat
    /\ http = NoHttp
    /\ graph = NoGraph

----------------------------------------------------------------------------
Init ==
    /\ mode = "SIMULATION"
    /\ reader = "SimulationDataReader"
    /\ writer = "SimulationControlWriter"
    /\ writer_logs = <<>>
    /\ audit_log = <<>>
    /\ last_switch_time = 0
    /\ lock = NoTask
    /\ pc = [t \in Tasks |-> "idle"]
    /\ req = [t \in Tasks |-> NoReq]
    /\ outcome = [t \in Tasks |-> "none"]
    /\ now = 0
    /\ sim_state = SimState
    /\ sim_state_id = 0
    /\ wcall = [op |-> "none", arg |-> 0, ret |-> "none"]
    /\ heat_efficiency_factor = heat_efficiency_default
    /\ last_valid_temp = None
    /\ sensor_result = NoResult
    /\ sensor_call = NoSensorCall
    /\ payload = None
    /\ subscribers = {}
    /\ queues = [c \in Subs |-> None]
    /\ received = [c \in Subs |-> <<>>]
    /\ stream_ts = None
    /\ InitTools

Next ==
    \/ \E t \in Tasks, m \in SystemMode, tok \in Tokens :
          Call(t, m, UserOf[t], tok, ReasonOf[t])
    \/ \E t \in Tasks : Acquire(t)
    \/ \E t \in Tasks : Body(t)
    \/ Advance

Spec == Init /\ [][Next]_vars

\* One caller switching modes, commands through the bound writer, and the
\* simulator's control operations
NextRW ==
    \/ \E m \in SystemMode : Call("t1", m, UserOf["t1"], PRODUCTION_TOKEN, ReasonOf["t1"])
    \/ Acquire("t1")
    \/ Body("t1")
    \/ Advance
    \/ WriterCommand
    \/ EmergencyStop
    \/ Resume
    \/ ResetState

SpecRW == Init /\ [][NextRW]_vars

\* The controller as constructed, in Simulation mode
InitController ==
    /\ mode = "SIMULATION"
    /\ reader = "SimulationDataReader"
    /\ writer = "SimulationControlWriter"
    /\ writer_logs = <<>>
    /\ audit_log = <<>>
    /\ last_switch_time = 0
    /\ lock = NoTask
    /\ pc = [t \in Tasks |-> "idle"]
    /\ req = [t \in Tasks |-> NoReq]
    /\ outcome = [t \in Tasks |-> "none"]
    /\ wcall = [op |-> "none", arg |-> 0, ret |-> "none"]

\* The soft sensor alone: process() called with readings below, inside, at
\* the edges of and above the valid range, one of them exactly the maximum
\* rate of change away from another
RawTemps == {Deg(1200) - 1, Deg(1200), Deg(1300), Deg(1300) + 500, Deg(1300) + 501,
             Deg(1550), Deg(1550) + 1}
\* 0.5 %/min of Si and 1.0 %/min of C each outweigh the base loss twice
SiRates == {0, 5000}
CRates == {0, 10000}
Steps == {0, 1, 2}

InitSensor ==
    /\ InitController
    /\ LoopIs(Constructed(0))
    /\ subscribers = {}
    /\ queues = [c \in Subs |-> None]
    /\ received = [c \in Subs |-> <<>>]
    /\ stream_ts = None
    /\ InitTools

NextSensor ==
    \/ \E raw_temp \in RawTemps, si_rate \in SiRates, c_rate \in CRates, dt_s \in Steps :
          Process(RawTemps, raw_temp, si_rate, c_rate, dt_s)
    \/ NewSoftSensor

SpecSensor == InitSensor /\ [][NextSensor]_vars

\* The soft sensor after a fault: readings 10 degC apart and half a degree
\* apart, at the loop's step of 1 s and at a step of 0; 0.25 %/min of Si
\* balances the base loss, 1.0 %/min of C outweighs it twice
RecoveryTemps == {Deg(1300), Deg(1310), Deg(1310) + 300}
RecoverySiRates == {0, 2500}
RecoverySteps == {0, 1}

NextRecovery ==
    \E raw_temp \in RecoveryTemps, si_rate \in RecoverySiRates, c_rate \in CRates,
       dt_s \in RecoverySteps :
          Process(RecoveryTemps, raw_temp, si_rate, c_rate, dt_s)

\* the loop calls process() in every tick, so calls keep being made
SpecRecovery == InitSensor /\ [][NextRecovery]_vars /\ WF_vars(NextRecovery)

\* The loop with the control operations and the Simulation writer, followed
\* from construction, from just before the lance is first raised, the first
\* sub-lance sample, the coolant window and the run reset, and from deep
\* inside an emergency stop that began at construction
LoopStartTicks == StartTicks \ {31, 121, 299, 416, 421}

InitLoop ==
    /\ InitController
    /\ \E n \in LoopStartTicks : LoopIs(After(n, n = LongStopTicks))
    /\ subscribers = {}
    /\ queues = [c \in Subs |-> None]
    /\ received = [c \in Subs |-> <<>>]
    /\ stream_ts = None
    /\ InitTools

NextLoop ==
    \/ LoopTask
    \/ EmergencyStop
    \/ Resume
    \/ \E h \in Heights : SimulationSetLanceHeight(h)
    \/ \E f \in Flows : SimulationSetOxygenFlow(f)
    \/ \E m \in Materials, w \in Weights : SimulationAddCoolant(m, w)
    \/ SimulationEmergencyStop
    \/ StreamData

SpecLoop == InitLoop /\ [][NextLoop]_vars

\* The loop and its subscribers, followed from construction, from 31 ticks
\* later with a subscriber that has read nothing since construction, and
\* from just before the run reset
FanoutStartTicks == {0, 31, 598}

InitFanout ==
    /\ InitController
    /\ \E n \in FanoutStartTicks :
          /\ LoopIs(After(n, FALSE))
          /\ subscribers = IF n = 31 THEN {"s1"} ELSE {}
          /\ queues = [c \in Subs |-> IF n = 31 /\ c = "s1" THEN Some(Produced(n)) ELSE None]
    /\ received = [c \in Subs |-> <<>>]
    /\ stream_ts = None
    /\ InitTools

NextFanout ==
    \/ LoopTask
    \/ \E c \in Subs : Subscribe(c)
    \/ \E c \in Subs : Get(c)
    \/ \E c \in Subs : Unsubscribe(c)

SpecFanout == InitFanout /\ [][NextFanout]_vars

\* The running loop under the event loop's scheduling, with subscriptions
\* coming and going and the process stopped and resumed, followed from
\* construction and from just before the run reset
TicksStartTicks == {0, 598}

InitTicks ==
    /\ InitController
    /\ \E n \in TicksStartTicks : LoopIs(After(n, FALSE))
    /\ subscribers = {}
    /\ queues = [c \in Subs |-> None]
    /\ received = [c \in Subs |-> <<>>]
    /\ stream_ts = None
    /\ InitTools

NextTicks ==
    \/ LoopTask
    \/ \E c \in Subs : Subscribe(c)
    \/ \E c \in Subs : Unsubscribe(c)
    \/ EmergencyStop
    \/ Resume

\* the event loop runs the loop task again once its sleep is over
SpecTicks == InitTicks /\ [][NextTicks]_vars /\ WF_vars(LoopTask)

\* Controller and simulator as constructed, nothing subscribed
InitIdle ==
    /\ InitController
    /\ LoopIs(Constructed(0))
    /\ subscribers = {}
    /\ queues = [c \in Subs |-> None]
    /\ received = [c \in Subs |-> <<>>]
    /\ stream_ts = None

\* A Kalman filter under predict and update calls
InitialStates == {3500, 4200}      \* thousandths of a percent carbon
Covariances == {0, 100}
ProcessNoises == {0, 1}
MeasurementNoises == {0, 50}
Changes == {-10, 0}
Offsets == {0, -500}               \* measurement minus estimate

InitKalman ==
    /\ InitIdle
    /\ \E x0 \in InitialStates, P0 \in Covariances,
          Q \in ProcessNoises, R \in MeasurementNoises :
          kf = KalmanFilter1D(x0, P0, Q, R)
    /\ kin = NoKinetics
    /\ eq = NoEquilibrium
    /\ lance = NoLanceProfile
    /\ chat = NoChat
    /\ http = NoHttp
    /\ graph = NoGraph

NextKalman ==
    \/ \E u \in Changes : KalmanPredict(u)
    \/ \E d \in Offsets : KalmanUpdate(kf.x + d)

SpecKalman == InitKalman /\ [][NextKalman]_vars

\* The kinetics derivatives over a grid of bath states, oxygen supplies and
\* stirring factors
BathStates ==
    [C : {0, 4200}, Si : {0, 250}, V : {0, 280}, Ti : {0, 100},
     T_c : {1280, 1380, 1480}]
BathWeights == {10, 8000}          \* 100 kg and 80 t
OxygenSupplies == {0, 10000, 27280, 60000}
StirringFactors == {1, 10}

InitKinetics == InitIdle /\ InitTools

NextKinetics ==
    \E y \in BathStates, w \in BathWeights, o \in OxygenSupplies, f \in StirringFactors :
        Kinetics(y, w, o, f)

SpecKinetics == InitKinetics /\ [][NextKinetics]_vars

\* The equilibrium solver over a grid of analyses and oxygen amounts
EquilibriumInputs ==
    [C : {3500, 4200}, Si : {0, 280}, V : {0, 280}, Ti : {0, 100},
     oxygen_flow_rate_m3h : {0, 2000, 22000}, duration_s : {0, 60, 360, 600}]

InitEquilibrium == InitIdle /\ InitTools

NextEquilibrium == \E inp \in EquilibriumInputs : Equilibrium(inp)

SpecEquilibrium == InitEquilibrium /\ [][NextEquilibrium]_vars

\* The lance recommendation and the coordinator over in-range, out-of-range,
\* absent and non-numeric context values
SiContents == {10, 15, 18, 28, 30, 31}
SiValues == {Absent, Number(18), Number(28), Number(600), Text}
TempValues == {Absent, Number(1340), Number(1360), Number(1700), Text}
OneCanValues == {"absent", "true", "false"}

InitAgents == InitIdle /\ InitTools

NextAgents ==
    \/ \E si \in SiContents : RecommendLanceProfile(si)
    \/ \E si \in SiValues, temp \in TempValues, c \in OneCanValues, h \in BOOLEAN :
          CoordinatorRun(si, temp, c, h)

SpecAgents == InitAgents /\ [][NextAgents]_vars

\* The mode endpoint next to one task that awaits switch_mode itself
InitApi == InitIdle /\ InitTools

NextApi ==
    \/ \E m \in SystemMode, tok \in Tokens : SetSystemMode(m, tok)
    \/ \E m \in SystemMode : Call("t1", m, UserOf["t1"], PRODUCTION_TOKEN, ReasonOf["t1"])
    \/ Acquire("t1")
    \/ Body("t1")
    \/ Advance

SpecApi == InitApi /\ [][NextApi]_vars

\* One thread of the workflow graph: run, the nodes, and the decisions of
\* the operator
InitGraph == InitIdle /\ InitTools

NextGraph ==
    \/ RunGraph
    \/ \E r \in GraphRecipes : ChargingNode(r)
    \/ SimulationNode
    \/ HumanApprovalNode
    \/ CriticNode
    \/ SaveContextNode
    \/ \E action \in GraphActions, recipe \in {None} \cup {Some(r) : r \in GraphRecipes} :
          ApproveGraph(action, recipe)

SpecGraph == InitGraph /\ [][NextGraph]_vars

\* One heat of the loop with the control operations and the Simulation
\* writer, followed from just before the lance is raised and lowered, from
\* just before, inside and up to the end of both sampling windows, and from
\* just before the run reset
HeatStartTicks == {58, 116, 121, 299, 416, 421, 598}
HeatFlows == {0}                   \* Nm3/min

InitHeat ==
    /\ InitController
    /\ \E n \in HeatStartTicks : LoopIs(After(n, FALSE))
    /\ subscribers = {}
    /\ queues = [c \in Subs |-> None]
    /\ received = [c \in Subs |-> <<>>]
    /\ stream_ts = None
    /\ InitTools

NextHeat ==
    \/ LoopTask
    \/ EmergencyStop
    \/ Resume
    \/ \E h \in Heights : SimulationSetLanceHeight(h)
    \/ \E f \in HeatFlows : SimulationSetOxygenFlow(f)

SpecHeat == InitHeat /\ [][NextHeat]_vars

\* The loop with everything that can reach the emergency-stop flag: the
\* control operations, the commands of whichever writer is bound, and a
\* caller switching modes; followed from inside a run and from just before
\* the run reset
StopStartTicks == {116, 598}

InitStop ==
    /\ InitController
    /\ \E n \in StopStartTicks : LoopIs(After(n, FALSE))
    /\ subscribers = {}
    /\ queues = [c \in Subs |-> None]
    /\ received = [c \in Subs |-> <<>>]
    /\ stream_ts = None
    /\ InitTools

NextStop ==
    \/ LoopTask
    \/ EmergencyStop
    \/ Resume
    \/ WriterCommand
    \/ \E m \in SystemMode : Call("t1", m, UserOf["t1"], PRODUCTION_TOKEN, ReasonOf["t1"])
    \/ Acquire("t1")
    \/ Body("t1")

SpecStop == InitStop /\ [][NextStop]_vars

\* Two callers of switch_mode next to the running loop.  A caller waiting
\* for the switch lock gets it in turn (asyncio.Lock wakes its waiters in
\* order), and the body runs to its end without suspending.
InitSwitch == InitIdle /\ InitTools

NextSwitch ==
    \/ \E t \in Tasks, m \in SystemMode, tok \in Tokens :
          Call(t, m, UserOf[t], tok, ReasonOf[t])
    \/ \E t \in Tasks : Acquire(t)
    \/ \E t \in Tasks : Body(t)
    \/ LoopTask

SpecSwitch ==
    /\ InitSwitch
    /\ [][NextSwitch]_vars
    /\ \A t \in Tasks : SF_vars(Acquire(t)) /\ WF_vars(Body(t))

----------------------------------------------------------------------------
(* Properties                                                              *)

\* a step in which task t runs the body of switch_mode
BodyStep(t) == pc[t] = "locked" /\ pc'[t] = "idle"

Rejections == {"RuntimeError", "ValueError", "PermissionError"}

LastOf(seq) == seq[Len(seq)]

LastRecord == audit_log[Len(audit_log)]

\* C1: a switch_mode call targeting PRODUCTION while the mode is SIMULATION
\* never commits, whatever the credential: it raises the rate-limit error
\* inside the cooldown window and the illegal-transition error otherwise;
\* whenever the mode is PRODUCTION the last committed switch came from
\* VALIDATION.
C1_NoDirectProduction ==
    /\ [](mode = "PRODUCTION" =>
            /\ audit_log # <<>>
            /\ LastRecord.from_mode = "VALIDATION"
            /\ LastRecord.to_mode = "PRODUCTION")
    /\ [][\A t \in Tasks :
            (BodyStep(t) /\ mode = "SIMULATION" /\ req[t].new_mode = "PRODUCTION") =>
                /\ mode' = "SIMULATION"
                /\ audit_log' = audit_log
                /\ outcome'[t] = IF now - last_switch_time < switch_cooldown
                                 THEN "RuntimeError" ELSE "ValueError"]_vars

\* a SIMULATION -> PRODUCTION call with the right token ended in the
\* illegal-transition error
C1_Witness ==
    \E t \in Tasks :
        /\ pc[t] = "idle"
        /\ outcome[t] = "ValueError"
        /\ req[t].new_mode = "PRODUCTION"
        /\ req[t].auth_token = PRODUCTION_TOKEN
        /\ mode = "SIMULATION"

\* C2: from VALIDATION with the cooldown elapsed, switch_mode(PRODUCTION)
\* commits if and only if the credential is the provisioned token; with any
\* other credential it raises the permission error and leaves the mode
\* VALIDATION and the audit log unchanged.
C2_ProductionNeedsToken ==
    [][\A t \in Tasks :
         (/\ BodyStep(t)
          /\ mode = "VALIDATION"
          /\ req[t].new_mode = "PRODUCTION"
          /\ now - last_switch_time >= switch_cooldown) =>
            IF req[t].auth_token = "SECURE_PRODUCTION_TOKEN_2026"
            THEN /\ mode' = "PRODUCTION"
                 /\ outcome'[t] = "return"
                 /\ Len(audit_log') = Len(audit_log) + 1
            ELSE /\ outcome'[t] = "PermissionError"
                 /\ mode' = "VALIDATION"
                 /\ audit_log' = audit_log]_vars

\* one caller was refused with a wrong token, another entered PRODUCTION
\* with the right one
C2_Witness ==
    /\ mode = "PRODUCTION"
    /\ \E t, u \in Tasks :
        /\ pc[t] = "idle" /\ outcome[t] = "PermissionError"
        /\ req[t].auth_token # PRODUCTION_TOKEN
        /\ pc[u] = "idle" /\ outcome[u] = "return"
        /\ req[u].new_mode = "PRODUCTION"
        /\ req[u].auth_token = PRODUCTION_TOKEN

\* the attempt would pass the checks that follow the rate limit
OtherwiseLegal(r) ==
    /\ ~(mode = "SIMULATION" /\ r.new_mode = "PRODUCTION")
    /\ (r.new_mode = "PRODUCTION" /\ r.new_mode # mode
           => r.auth_token = "SECURE_PRODUCTION_TOKEN_2026")

\* C3: once a switch has been committed at time t, every attempt before
\* t + cooldown raises the rate-limit error, and an attempt at or after
\* t + cooldown is not rate-limited: if it is otherwise legal it returns
\* with the mode equal to its target.
C3_Cooldown ==
    [][\A t \in Tasks :
         (BodyStep(t) /\ audit_log # <<>>) =>
            IF now < last_switch_time + switch_cooldown
            THEN outcome'[t] = "RuntimeError"
            ELSE /\ outcome'[t] # "RuntimeError"
                 /\ OtherwiseLegal(req[t]) =>
                      (outcome'[t] = "return" /\ mode' = req[t].new_mode)]_vars

\* a caller whose earlier switch is in the log was then rate-limited, and a
\* switch was committed exactly one cooldown after the previous one
C3_Witness ==
    /\ Len(audit_log) >= 2
    /\ LastRecord.timestamp - audit_log[Len(audit_log) - 1].timestamp = switch_cooldown
    /\ \E t \in Tasks :
        /\ pc[t] = "idle" /\ outcome[t] = "RuntimeError"
        /\ \E i \in DOMAIN audit_log : audit_log[i].user = UserOf[t]

\* C4: switch attempts run one at a time under the switch lock, and any two
\* committed switches are at least one cooldown apart.
C4_SerializedAndSpaced ==
    /\ Cardinality({t \in Tasks : pc[t] = "locked"}) <= 1
    /\ \A t \in Tasks : pc[t] = "locked" => lock = t
    /\ \A i, j \in DOMAIN audit_log :
          i < j => audit_log[j].timestamp - audit_log[i].timestamp >= switch_cooldown

\* two switches are committed and two attempts contend for the lock
C4_Witness ==
    /\ Len(audit_log) >= 2
    /\ \E t, u \in Tasks : pc[t] = "locked" /\ pc[u] = "acquire"

\* C5: a rejected switch_mode call leaves the mode, the reader and writer
\* bindings, the audit log and the last-switch time as they were.
C5_RejectionsAreTransactional ==
    [][\A t \in Tasks :
         (BodyStep(t) /\ outcome'[t] \in Rejections) =>
            /\ mode' = mode
            /\ reader' = reader
            /\ writer' = writer
            /\ writer_logs' = writer_logs
            /\ audit_log' = audit_log
            /\ last_switch_time' = last_switch_time]_vars

\* after a committed switch, one call was rate-limited and another refused
\* for its credential once the cooldown had elapsed
C5_Witness ==
    /\ audit_log # <<>>
    /\ now >= last_switch_time + switch_cooldown
    /\ \E t, u \in Tasks :
        /\ pc[t] = "idle" /\ outcome[t] = "RuntimeError"
        /\ \E i \in DOMAIN audit_log : audit_log[i].user = UserOf[t]
        /\ pc[u] = "idle" /\ outcome[u] = "PermissionError"

\* C6: in every state the bound reader and writer are those of the current
\* mode.
C6_PairMatchesMode ==
    /\ mode = "SIMULATION" =>
          reader = "SimulationDataReader" /\ writer = "SimulationControlWriter"
    /\ mode = "VALIDATION" =>
          reader = "ValidationDataReader" /\ writer = "ValidationControlWriter"
    /\ mode = "PRODUCTION" =>
          reader = "ValidationDataReader" /\ writer = "ProductionControlWriter"

\* back in SIMULATION after a visit to PRODUCTION, with a rejected call
C6_Witness ==
    /\ Len(audit_log) = 3
    /\ audit_log[2].to_mode = "PRODUCTION"
    /\ mode = "SIMULATION"
    /\ \E t \in Tasks : pc[t] = "idle" /\ outcome[t] \in Rejections

\* C7: in VALIDATION mode every writer command returns true, appends exactly
\* one entry to the writer's log and leaves the simulator's state unchanged.
C7_ShadowWriterOnlyLogs ==
    [][(mode = "VALIDATION" /\ WriterCommand) =>
          /\ wcall'.ret = "True"
          /\ Len(writer_logs') = Len(writer_logs) + 1
          /\ SubSeq(writer_logs', 1, Len(writer_logs)) = writer_logs
          /\ LastOf(writer_logs').cmd = wcall'.op
          /\ sim_state' = sim_state
          /\ sim_state_id' = sim_state_id]_vars

\* the shadow writer logged an emergency stop after another command while
\* the simulator, moved earlier in SIMULATION mode, is not stopped
C7_Witness ==
    /\ mode = "VALIDATION"
    /\ Len(writer_logs) = 2
    /\ writer_logs[2].cmd = "emergency_stop"
    /\ wcall = Returned("emergency_stop", 0, "True")
    /\ ~sim_state.is_emergency_stop
    /\ sim_state.coolant_added_kg > 0

\* C8: in PRODUCTION mode every writer command raises the not-implemented
\* safety lock and changes neither the simulator's state nor the
\* controller's mode, bindings or audit log.
C8_ProductionWriterLocked ==
    [][(mode = "PRODUCTION" /\ WriterCommand) =>
          /\ wcall'.ret = "NotImplementedError"
          /\ UNCHANGED <<sim_state, sim_state_id, tool_vars>>
          /\ UNCHANGED <<mode, reader, writer, writer_logs, audit_log, tool_vars>>]_vars

\* a production emergency stop raised while the simulator keeps running
C8_Witness ==
    /\ mode = "PRODUCTION"
    /\ wcall = Returned("emergency_stop", 0, "NotImplementedError")
    /\ ~sim_state.is_emergency_stop

\* C9: in SIMULATION mode, right after writer.set_lance_height(h) or
\* writer.set_oxygen_flow(f) the reader returns h or f, also after the loop
\* replaced its state object.
C9_ClosedLoop ==
    [][/\ \A h \in Heights :
            (mode = "SIMULATION" /\ WriterSetLanceHeight(h)) =>
                (wcall'.ret = "True" /\ get_lance_height' = h)
       /\ \A f \in Flows :
            (mode = "SIMULATION" /\ WriterSetOxygenFlow(f)) =>
                (wcall'.ret = "True" /\ get_oxygen_flow' = f)]_vars

\* after a run reset the lance was set through the writer and read back
C9_Witness ==
    /\ mode = "SIMULATION"
    /\ sim_state_id >= 1
    /\ \E h \in Heights :
        /\ wcall = Returned("set_lance_height", h, "True")
        /\ h # DefaultLanceHeight
        /\ get_lance_height = h

\* C10: the audit log changes only by a committed switch appending one
\* record with the caller's user and reason, the mode before and the target
\* mode; every change of mode appends one; nothing else touches the log.
C10_AuditAppendOnly ==
    [][/\ mode' # mode <=> audit_log' # audit_log
       /\ audit_log' # audit_log =>
            \E t \in Tasks :
                /\ BodyStep(t)
                /\ Len(audit_log') = Len(audit_log) + 1
                /\ SubSeq(audit_log', 1, Len(audit_log)) = audit_log
                /\ LastOf(audit_log').user = req[t].user
                /\ LastOf(audit_log').reason = req[t].reason
                /\ LastOf(audit_log').from_mode = mode
                /\ LastOf(audit_log').to_mode = req[t].new_mode
                /\ LastOf(audit_log').to_mode = mode'
       /\ \A t \in Tasks :
            (BodyStep(t) /\ (outcome'[t] \in Rejections \/ req[t].new_mode = mode))
                => audit_log' = audit_log]_vars

\* two users committed switches; afterwards a no-op and a rejection
C10_Witness ==
    /\ Len(audit_log) = 2
    /\ audit_log[1].user # audit_log[2].user
    /\ audit_log[1].reason # audit_log[2].reason
    /\ \E t, u \in Tasks :
        /\ pc[t] = "idle" /\ outcome[t] = "return" /\ req[t].new_mode = mode
        /\ LastRecord.user # UserOf[t]
        /\ pc[u] = "idle" /\ outcome[u] \in Rejections

----------------------------------------------------------------------------
(* Soft sensor properties                                                  *)

\* a step in which a process() call returned
ProcessStep == sensor_call' # sensor_call

\* C18: validate_temperature judges a reading invalid exactly when it is
\* below 1200 degC or above 1550 degC or, with a reference present and a
\* positive time step, more than 50 degC/min away from the reference; an
\* out-of-range reading gets confidence 0.0; a valid reading comes back from
\* process() with estimated_value equal to the raw value and
\* correction_source none, and is the reference afterwards.
C18_Validation ==
    [][ProcessStep =>
          LET a == sensor_call'
              out == a.raw_temp < 720000 \/ a.raw_temp > 930000
              fast == /\ a.reference # <<>>
                      /\ a.dt_s > 0
                      /\ Abs(a.raw_temp - a.reference[1]) * 60 > 30000 * a.dt_s
          IN /\ a.reference = last_valid_temp
             /\ a.validation.is_valid = ~(out \/ fast)
             /\ out => a.validation.confidence = 0
             /\ sensor_result'.is_valid = a.validation.is_valid
             /\ sensor_result'.raw_value = a.raw_temp
             /\ a.validation.is_valid =>
                   /\ sensor_result'.estimated_value = a.raw_temp
                   /\ sensor_result'.correction_source = "none"
                   /\ last_valid_temp' = <<a.raw_temp>>]_vars

\* a reading inside the range, one unit further from its reference than
\* 50 degC/min allows in one second, was refused
C18_Witness ==
    /\ sensor_call.reference = <<780000>>
    /\ sensor_call.dt_s = 1
    /\ sensor_call.raw_temp = 780501
    /\ sensor_call.validation.reason = "rate_exceeded"
    /\ ~sensor_result.is_valid

\* C19: a process() call on an invalid reading with a reference present
\* returns estimated_value = reference + (20 si_rate + 10 c_rate - 5) *
\* dt_s / 60 with confidence 0.85 and correction_source
\* mechanism_inference, and that estimate is the reference afterwards; with
\* no reference it returns 1300.0 with confidence 0.1 and correction_source
\* default_fallback, and the reference stays absent.
C19_Reconstruction ==
    [][ProcessStep /\ ~sensor_call'.validation.is_valid =>
          LET a == sensor_call'
              delta == ((a.si_rate * 20 + a.c_rate * 10 - 50000) * a.dt_s * 600)
                          \div 600000
          IN /\ a.reference = last_valid_temp
             /\ ~sensor_result'.is_valid
             /\ IF a.reference # <<>>
                THEN /\ sensor_result'.estimated_value = a.reference[1] + delta
                     /\ sensor_result'.confidence = 85
                     /\ sensor_result'.correction_source = "mechanism_inference"
                     /\ last_valid_temp' = <<a.reference[1] + delta>>
                ELSE /\ sensor_result'.estimated_value = 780000
                     /\ sensor_result'.confidence = 10
                     /\ sensor_result'.correction_source = "default_fallback"
                     /\ last_valid_temp' = <<>>]_vars

\* a second reconstruction in a row: its reference is itself an estimate,
\* and the two-second step moved it by twice the per-second delta
C19_Witness ==
    /\ sensor_result.correction_source = "mechanism_inference"
    /\ sensor_call.reference # <<>>
    /\ sensor_call.reference[1] \notin RawTemps
    /\ sensor_call.dt_s = 2
    /\ sensor_call.si_rate = 5000
    /\ sensor_call.c_rate = 0
    /\ sensor_result.estimated_value = sensor_call.reference[1] + 100
    /\ last_valid_temp = <<sensor_result.estimated_value>>

----------------------------------------------------------------------------
(* Loop properties                                                         *)

\* a step in which the loop ran one iteration: only the loop's sleep lets
\* the clock advance in SpecLoop and SpecFanout
TickStep == now' # now

\* C11: in every reachable state of the loop every composition percentage
\* is at least 0.01 and the temperature is at least 1000 degC and at most
\* 2000 degC.
C11_StateBounds ==
    /\ sim_state.c_pct >= 100
    /\ sim_state.si_pct >= 100
    /\ sim_state.v_pct >= 100
    /\ sim_state.mn_pct >= 100
    /\ sim_state.temp_c >= 600000
    /\ sim_state.temp_c <= 1200000

\* C12: a tick that starts with the emergency-stop flag set leaves the
\* elapsed time, the four percentages, lance height, oxygen flow, coolant
\* total and latest sample as they were, lowers the temperature by exactly
\* the passive cooling of one second (0.1/60 degC), stamps the state with
\* the time of the tick, and leaves the flag set; the step that raises the
\* flag is no tick, and leaves time, chemistry, temperature and the last
\* snapshot as the completed ticks left them.
C12_StoppedTick ==
    /\ [][TickStep /\ sim_state.is_emergency_stop =>
            /\ sim_state'.time_min = sim_state.time_min
            /\ sim_state'.c_pct = sim_state.c_pct
            /\ sim_state'.si_pct = sim_state.si_pct
            /\ sim_state'.v_pct = sim_state.v_pct
            /\ sim_state'.mn_pct = sim_state.mn_pct
            /\ sim_state'.lance_height_mm = sim_state.lance_height_mm
            /\ sim_state'.oxygen_flow_nm3_min = sim_state.oxygen_flow_nm3_min
            /\ sim_state'.coolant_added_kg = sim_state.coolant_added_kg
            /\ sim_state'.latest_sample = sim_state.latest_sample
            /\ sim_state'.temp_c = sim_state.temp_c - 1
            /\ sim_state'.last_ts = now'
            /\ sim_state'.last_ts > sim_state.last_ts
            /\ sim_state'.is_emergency_stop
            /\ sim_state_id' = sim_state_id]_vars
    /\ [][~sim_state.is_emergency_stop /\ sim_state'.is_emergency_stop =>
            /\ ~TickStep
            /\ payload' = payload
            /\ sim_state'.time_min = sim_state.time_min
            /\ sim_state'.temp_c = sim_state.temp_c
            /\ sim_state'.c_pct = sim_state.c_pct
            /\ sim_state'.si_pct = sim_state.si_pct
            /\ sim_state'.v_pct = sim_state.v_pct
            /\ sim_state'.mn_pct = sim_state.mn_pct
            /\ sim_state'.last_ts = sim_state.last_ts]_vars

\* the process was stopped after the first sub-lance sample was taken, and
\* a tick has run since: the clock is one tick past the frozen process time
C12_Witness ==
    /\ sim_state.is_emergency_stop
    /\ sim_state.time_min = 118
    /\ sim_state.latest_sample # <<>>
    /\ now = 119 * ClockRes
    /\ sim_state.last_ts = now
    /\ payload # <<>>
    /\ payload[1].is_emergency_stop

\* C13: emergency_stop() sets the flag, puts the lance at 2000 mm and the
\* oxygen flow at 0; resume() clears the flag and puts the lance at 1100 mm
\* and the oxygen flow at its default; neither changes another field, and
\* applying either to its own result changes nothing.
C13_StopAndResume ==
    /\ [][EmergencyStop \/ SimulationEmergencyStop =>
            /\ sim_state' = [sim_state EXCEPT !.is_emergency_stop = TRUE,
                                              !.lance_height_mm = 2000,
                                              !.oxygen_flow_nm3_min = 0]
            /\ emergency_stop(sim_state') = sim_state'
            /\ sim_state_id' = sim_state_id]_vars
    /\ [][Resume =>
            /\ sim_state' = [sim_state EXCEPT !.is_emergency_stop = FALSE,
                                              !.lance_height_mm = 1100,
                                              !.oxygen_flow_nm3_min = 366]
            /\ resume(sim_state') = sim_state'
            /\ sim_state_id' = sim_state_id]_vars

\* the process was resumed at a time when the script holds the lance at
\* 1200 mm, after a stop that followed a writer's coolant addition
C13_Witness ==
    /\ ~sim_state.is_emergency_stop
    /\ sim_state.time_min >= 60
    /\ sim_state.lance_height_mm = 1100
    /\ sim_state.oxygen_flow_nm3_min = 366
    /\ sim_state.coolant_added_kg = 50
    /\ wcall.op = "emergency_stop"

----------------------------------------------------------------------------
(* Broadcast properties                                                    *)

\* the queue of subscription c, empty before subscribe() created it
QueueOf(c) == IF queues[c] = <<>> THEN <<>> ELSE queues[c][1]

\* subscription c was released: its queue exists and is out of _subscribers
Released(c) == queues[c] # <<>> /\ c \notin subscribers

\* everything subscription c was offered that it has not lost: what its
\* generator yielded, then what waits in its queue
Stream(c) == received[c] \o QueueOf(c)

\* C14: a tick's broadcast is never held up by a queue: the loop task stays
\* enabled whatever the occupancy; in the step every subscribed queue
\* holding fewer than 32 snapshots gets the new snapshot appended once,
\* every queue holding 32 is left as it was, and no queue ever holds more
\* than 32.
C14_BroadcastNeverWaits ==
    /\ [](\A c \in Subs : Len(QueueOf(c)) <= 32)
    /\ [](InHorizon /\ sim_state_id < MaxResets => ENABLED LoopTask)
    /\ [][TickStep =>
            \A c \in Subs :
               IF c \in subscribers /\ Len(queues[c][1]) < 32
               THEN queues'[c] = <<Append(queues[c][1], payload'[1])>>
               ELSE queues'[c] = queues[c]]_vars

\* one subscriber's queue is full and missed the last snapshot, which the
\* other subscriber got
C14_Witness ==
    /\ subscribers = {"s1", "s2"}
    /\ Len(queues["s1"][1]) = 32
    /\ payload # <<>>
    /\ queues["s1"][1][32] # payload[1]
    /\ queues["s2"][1] # <<>>
    /\ queues["s2"][1][Len(queues["s2"][1])] = payload[1]

\* C15: what a subscription is handed, followed by what waits in its queue,
\* is in the order of production without repetition: the snapshots' stamps
\* strictly increase; its generator yields the head of its queue and nothing
\* else; a released subscription stays out of the broadcast set and its
\* queue gets nothing more, while the release leaves every other
\* subscription's membership, queue and received snapshots alone.
C15_OrderedDelivery ==
    /\ [](\A c \in Subs : \A i, j \in 1..Len(Stream(c)) :
              i < j => Stream(c)[i].temperature.ts < Stream(c)[j].temperature.ts)
    /\ [][\A c \in Subs :
            /\ received'[c] # received[c] =>
                  /\ c \in subscribers
                  /\ queues[c][1] # <<>>
                  /\ received'[c] = Append(received[c], queues[c][1][1])
                  /\ queues'[c] = <<Tail(queues[c][1])>>
            /\ Released(c) =>
                  /\ c \notin subscribers'
                  /\ queues'[c] = queues[c]
                  /\ received'[c] = received[c]
            /\ c \in subscribers /\ c \notin subscribers' =>
                  /\ queues'[c] = queues[c]
                  /\ \A d \in Subs \ {c} :
                        /\ (d \in subscribers') = (d \in subscribers)
                        /\ queues'[d] = queues[d]
                        /\ received'[d] = received[d]]_vars

\* a released subscription that had received snapshots and still had some
\* queued; the loop has ticked since and the other subscription got that
\* snapshot
C15_Witness ==
    /\ Released("s1")
    /\ Len(received["s1"]) >= 2
    /\ queues["s1"][1] # <<>>
    /\ payload # <<>>
    /\ \A i \in 1..Len(Stream("s1")) : Stream("s1")[i].temperature.ts < payload[1].temperature.ts
    /\ "s2" \in subscribers
    /\ queues["s2"][1] # <<>>
    /\ queues["s2"][1][Len(queues["s2"][1])] = payload[1]

\* C16: every tick, stopped, running or resetting the run, builds one
\* snapshot of the state it leaves, stamped with the time of that tick, and
\* every subscription gets at most that one snapshot from it, each with
\* room in its queue getting it; and the loop goes on: from every point of
\* the horizon followed, the ticks carry it to the horizon's end.
C16_SnapshotEveryTick ==
    /\ [][TickStep =>
            /\ payload' # <<>>
            /\ payload'[1].temperature.ts = now'
            /\ payload'[1].temperature.ts = sim_state'.last_ts
            /\ payload'[1].is_emergency_stop = sim_state'.is_emergency_stop
            /\ payload'[1].process_time = (200 * sim_state'.time_min + 60) \div 120
            /\ payload'[1].temperature.status.raw_value = sim_state'.temp_c
            /\ payload' # payload
            /\ \A c \in Subs :
                  \/ queues'[c] = queues[c] /\ (c \in subscribers => Len(queues[c][1]) = 32)
                  \/ /\ c \in subscribers
                     /\ queues'[c] = <<Append(queues[c][1], payload'[1])>>]_vars
    /\ (InHorizon ~> ~InHorizon)

\* the tick that reset the run built a snapshot of the new run and the
\* subscriber got it
C16_Witness ==
    /\ sim_state_id = 1
    /\ sim_state.time_min = 0
    /\ payload # <<>>
    /\ payload[1].process_time = 0
    /\ payload[1].temperature.ts = now
    /\ payload[1].temperature.status.is_valid
    /\ "s1" \in subscribers
    /\ queues["s1"][1] # <<>>
    /\ queues["s1"][1][Len(queues["s1"][1])] = payload[1]

\* the fields a step leaves alone, when it touches the control fields only
ControlFieldsOnly ==
    sim_state' = [sim_state EXCEPT
                     !.lance_height_mm = sim_state'.lance_height_mm,
                     !.oxygen_flow_nm3_min = sim_state'.oxygen_flow_nm3_min,
                     !.coolant_added_kg = sim_state'.coolant_added_kg,
                     !.is_emergency_stop = sim_state'.is_emergency_stop]

\* the statement as written for C17: the process state changes in ticks of
\* the loop only
C17_OnlyTheTickWrites ==
    [][sim_state' # sim_state => TickStep]_vars

\* C17: the process state is replaced by a tick of the loop only, and a
\* step that changes it is a tick or one of the synchronous control
\* operations, which run between ticks without the lock and change only
\* lance height, oxygen flow, coolant total and the emergency-stop flag:
\* elapsed time, chemistry, rates, temperature, latest sample and the time
\* stamp change in ticks only; building a payload for /stream changes no
\* field.
C17_StateWriters ==
    /\ [][sim_state_id' # sim_state_id => TickStep]_vars
    /\ [][sim_state' # sim_state /\ ~TickStep =>
            /\ ControlFieldsOnly
            /\ payload' = payload
            /\ stream_ts' = stream_ts
            /\ \/ sim_state' = [sim_state EXCEPT !.is_emergency_stop = TRUE,
                                                 !.lance_height_mm = 2000,
                                                 !.oxygen_flow_nm3_min = 0]
               \/ sim_state' = [sim_state EXCEPT !.is_emergency_stop = FALSE,
                                                 !.lance_height_mm = 1100,
                                                 !.oxygen_flow_nm3_min = 366]
               \/ /\ wcall'.ret = "True"
                  /\ \/ /\ wcall'.op = "set_lance_height"
                        /\ sim_state' = [sim_state EXCEPT !.lance_height_mm = wcall'.arg]
                     \/ /\ wcall'.op = "set_oxygen_flow"
                        /\ sim_state' = [sim_state EXCEPT !.oxygen_flow_nm3_min = wcall'.arg]
                     \/ /\ wcall'.op = "add_coolant"
                        /\ sim_state' = [sim_state EXCEPT !.coolant_added_kg = @ + wcall'.arg]]_vars
    /\ [][stream_ts' # stream_ts => sim_state' = sim_state /\ sim_state_id' = sim_state_id]_vars

\* the Simulation writer has set the lance to 1500 mm since the last tick:
\* the state differs from the snapshot that tick built, and /stream has
\* read it
C17_Witness ==
    /\ wcall.op = "set_lance_height"
    /\ sim_state.lance_height_mm = 1500
    /\ payload # <<>>
    /\ payload[1].lance_height.value = 1200
    /\ payload[1].temperature.ts = now
    /\ sim_state.last_ts = now
    /\ stream_ts = <<now>>

\* what C20 asks of one sensor status; confidence is in hundredths
StatusSound(r) ==
    /\ r.confidence >= 0
    /\ r.confidence <= 100
    /\ ~r.is_valid =>
          /\ r.estimated_value \in Int
          /\ r.correction_source \in {"mechanism_inference", "default_fallback"}
    /\ r.is_valid => r.correction_source = "none"

\* the reading a snapshot reports for a status
Reported(r) == IF r.is_valid THEN r.raw_value ELSE r.estimated_value

\* the statement as written for C20: the snapshot's temperature value is
\* the estimated value when invalid and the raw value when valid
C20_ValueIsTheReading ==
    /\ sensor_call # NoSensorCall => StatusSound(sensor_result)
    /\ payload # <<>> =>
          /\ StatusSound(payload[1].temperature.status)
          /\ payload[1].temperature.value * 60
                = Reported(payload[1].temperature.status)

\* C20: every status the soft sensor returns and every status carried in a
\* snapshot has confidence in [0,1], correction_source none when valid, and
\* an estimated value with correction_source mechanism_inference or
\* default_fallback when invalid; the snapshot's temperature value is the
\* estimated value when invalid and the raw value when valid, rounded to
\* one decimal place.
C20_StatusAndValue ==
    /\ sensor_call # NoSensorCall => StatusSound(sensor_result)
    /\ payload # <<>> =>
          /\ StatusSound(payload[1].temperature.status)
          /\ payload[1].temperature.value
                = (2 * Reported(payload[1].temperature.status) + 60) \div 120

\* the snapshot of the second tick of a run: its temperature is
\* reconstructed, no whole number of tenths of a degree, and rounds to
\* another tenth than the raw reading
C20_Witness ==
    /\ payload # <<>>
    /\ sim_state.time_min = 2
    /\ payload[1].temperature.ts = now
    /\ ~payload[1].temperature.status.is_valid
    /\ payload[1].temperature.status.correction_source = "mechanism_inference"
    /\ payload[1].temperature.status.confidence = 85
    /\ payload[1].temperature.status.estimated_value % 60 # 0
    /\ payload[1].temperature.value * 60 # payload[1].temperature.status.estimated_value
    /\ payload[1].temperature.value
          # (2 * payload[1].temperature.status.raw_value + 60) \div 120

----------------------------------------------------------------------------
(* The carbon filter                                                       *)

\* the step is an update call that returned or raised
UpdateStep ==
    /\ kf'.calls = kf.calls + 1
    /\ kf'.last.op = "update"

\* C21: an update with the measurement equal to the estimate, on a filter
\* with Q = 0 and R = 0, leaves the estimate x and the covariance P as they
\* were and does not fail.
C21_ExactMeasurementIsIdentity ==
    [][ UpdateStep /\ kf.Q = 0 /\ kf.R = 0 /\ kf'.last.arg = kf.x
          => /\ kf'.last.outcome = "return"
             /\ kf'.x = kf.x
             /\ kf'.P = kf.P ]_vars

----------------------------------------------------------------------------
(* Oxygen in the kinetics derivatives                                      *)

\* mol O2 per second (in hundredths) that a returned content rate takes up,
\* at num/den mol O2 per mol of the element
OxygenOfRate(rate, bath, M, num, den) ==
    ((((-rate) * bath) \div (10 * M)) * num) \div den

----------------------------------------------------------------------------
(* Oxygen in the equilibrium solver                                        *)

\* mol O2 taken in one element's turn
OxygenTaken(e) ==
    CASE e = "Si" -> eq.total_o2_mols - eq.o2_after.Si
      [] e = "Ti" -> eq.o2_after.Si - eq.o2_after.Ti
      [] e = "V"  -> eq.o2_after.Ti - eq.o2_after.V
      [] e = "C"  -> eq.o2_after.V - eq.o2_after.C

----------------------------------------------------------------------------
(* The mode endpoint                                                       *)

\* C24: the endpoint answers ok with the new mode only when the
\* controller's mode after the call is the requested target (the switch was
\* committed or was a no-op); otherwise it answers with an error.
C24_OkOnlyWhenSwitched ==
    http.called =>
      /\ http.status = 200 <=> http.mode_after = http.target
      /\ http.status = 200 => http.answered_mode = http.target

----------------------------------------------------------------------------
(* The coordinator and the lance recommendation                            *)

\* C25: when the charging calculation fails on a malformed or out-of-range
\* input, the coordinator does not raise: it takes the emergency recipe,
\* skips the dynamic simulation, still runs the lance and knowledge steps
\* and returns a safe-mode reply with a trace id.
C25_SafeModeNeverRaises ==
    chat.called /\ chat.charging = "fallback" =>
      /\ chat.outcome = "return"
      /\ chat.recipe = "emergency"
      /\ chat.simulation = "skipped"
      /\ chat.lance_step # "not_run"
      /\ chat.knowledge = "ran"
      /\ chat.safe_mode
      /\ chat.trace_id

\* C26: at Si = 0.28 % the recommendation is the constant-low mode with
\* exactly one step between 900 and 1000 mm and an endgame action at
\* 900 mm; at Si = 0.18 % it is the low-high-low mode with three steps, the
\* first lower than the second.
C26_ModeFollowsSilicon ==
    /\ lance.si_content_pct = 28 =>
          /\ lance.mode = "constant_low"
          /\ Len(lance.steps) = 1
          /\ 900 <= lance.steps[1].lance_height_mm
          /\ lance.steps[1].lance_height_mm <= 1000
          /\ lance.endgame_action = 900
    /\ lance.si_content_pct = 18 =>
          /\ lance.mode = "low_high_low"
          /\ Len(lance.steps) = 3
          /\ lance.steps[1].lance_height_mm < lance.steps[2].lance_height_mm

----------------------------------------------------------------------------
(* No-op switches and the first attempt                                    *)

\* C27: a switch_mode call whose target is the current mode returns
\* normally outside the cooldown window and is rejected as rate-limited
\* inside it; either way the mode, the reader and writer, the audit log and
\* the last-switch time stay as they were.
C27_NoOpSwitch ==
    [][\A t \in Tasks :
         (BodyStep(t) /\ req[t].new_mode = mode) =>
            /\ outcome'[t] = IF now - last_switch_time < switch_cooldown
                             THEN "RuntimeError" ELSE "return"
            /\ mode' = mode
            /\ reader' = reader
            /\ writer' = writer
            /\ writer_logs' = writer_logs
            /\ audit_log' = audit_log
            /\ last_switch_time' = last_switch_time]_vars

\* after the one committed switch, its caller asked for the same mode again
\* inside the window and was rate-limited, and the other caller asked for
\* it outside the window and returned; nothing was added or stamped
C27_Witness ==
    /\ Len(audit_log) = 1
    /\ audit_log[1].user = UserOf["t1"]
    /\ audit_log[1].to_mode = mode
    /\ last_switch_time = audit_log[1].timestamp
    /\ now >= last_switch_time + switch_cooldown
    /\ pc = [t \in Tasks |-> "idle"]
    /\ req["t1"].new_mode = mode /\ outcome["t1"] = "RuntimeError"
    /\ req["t2"].new_mode = mode /\ outcome["t2"] = "return"

\* C28: an attempt is rejected as rate-limited only if a switch was
\* committed less than one cooldown earlier; with no committed switch the
\* first attempt is never rate-limited, whatever the clock reads.
C28_RateLimitOnlyAfterCommit ==
    [][\A t \in Tasks :
         (BodyStep(t) /\ outcome'[t] = "RuntimeError") =>
            /\ audit_log # <<>>
            /\ now - LastRecord.timestamp < switch_cooldown]_vars

----------------------------------------------------------------------------
(* The switch lock and the loop                                            *)

\* C29: every switch_mode call ends with the switch lock released, whatever
\* its outcome; the lock is held only inside the body, which makes no
\* Reader or Writer call and touches nothing of the simulator; a tick
\* touches nothing of the controller or its lock; a caller that waits for
\* the lock gets through, and the loop can always take its next tick.
C29_SwitchesAndTicksDoNotBlock ==
    /\ [][\A t \in Tasks :
            BodyStep(t) =>
               /\ lock = t /\ lock' = NoTask
               /\ outcome'[t] \in Rejections \cup {"return"}
               /\ UNCHANGED <<now, sim_vars, wcall, loop_vars>>]_vars
    /\ [][now' # now => UNCHANGED <<ctrl_vars, task_vars>>]_vars
    /\ [](\A t \in Tasks : lock = t <=> pc[t] = "locked")
    /\ [](InHorizon /\ sim_state_id < MaxResets => ENABLED LoopTask)
    /\ \A t \in Tasks : (pc[t] = "acquire") ~> (pc[t] = "idle" /\ lock # t)

\* both callers are through, one with a committed switch and one refused
\* for its credential, the lock is free and the loop has ticked meanwhile
C29_Witness ==
    /\ lock = NoTask
    /\ pc = [t \in Tasks |-> "idle"]
    /\ outcome["t1"] = "return"
    /\ outcome["t2"] = "PermissionError"
    /\ \E i \in DOMAIN audit_log : audit_log[i].user = UserOf["t1"]
    /\ payload # None
    /\ sim_state.time_min > 0

----------------------------------------------------------------------------
(* Snapshot assembly                                                       *)

\* C30: a snapshot is assembled, and the soft sensor evaluated and its
\* last-valid reference updated, only as part of a tick of the loop, and the
\* snapshot a tick leaves is the one of the state that tick produced.
C30_AssemblyOnlyInTicks ==
    /\ [][ProcessStep \/ last_valid_temp' # last_valid_temp
             \/ sensor_result' # sensor_result => TickStep]_vars
    /\ [][TickStep => payload' # None /\ payload'[1].temperature.ts = now']_vars

----------------------------------------------------------------------------
(* The running heat                                                        *)

\* a tick of a process that is not stopped and is not reset by it
RunningTick ==
    /\ TickStep
    /\ ~sim_state.is_emergency_stop
    /\ sim_state_id' = sim_state_id

\* C31: a running tick oxidises no more of each element than the oxygen
\* flow held in the process state supplies; with the flow at 0 it leaves
\* every element percentage as it was.
C31_NoOxygenNoOxidation ==
    [][RunningTick /\ sim_state.oxygen_flow_nm3_min = 0 =>
          /\ sim_state'.si_pct = sim_state.si_pct
          /\ sim_state'.mn_pct = sim_state.mn_pct
          /\ sim_state'.v_pct = sim_state.v_pct
          /\ sim_state'.c_pct = sim_state.c_pct]_vars


\* the window a sample belongs to, in tenths of a minute; 0 for no sample
SampleOf(s) == IF s.latest_sample = None THEN 0 ELSE s.latest_sample[1].time

\* the window whose first tick was the latest to pass at process time t
WindowPassed(t) ==
    IF t < TscFirstTick THEN 0 ELSE IF t < TsoFirstTick THEN 20 ELSE 70

\* C32: within a heat the latest sample is replaced once in the first
\* window and once in the second and at no other tick, also when the heat
\* is stopped and resumed inside a window; a run reset clears it.
C32_OneSamplePerWindow ==
    /\ [](SampleOf(sim_state) = WindowPassed(sim_state.time_min))
    /\ [][sim_state'.latest_sample # sim_state.latest_sample =>
            /\ TickStep
            /\ ~sim_state.is_emergency_stop
            /\ IF sim_state_id' # sim_state_id
               THEN sim_state'.latest_sample = None
               ELSE /\ SampleWindow(sim_state'.time_min) # None
                    /\ SampleOf(sim_state') = SampleWindow(sim_state'.time_min)[1]
                    /\ SampleOf(sim_state) # SampleOf(sim_state')
                    /\ sim_state.time_min
                          < (IF SampleOf(sim_state') = 20 THEN TscFirstTick ELSE TsoFirstTick)
                    /\ sim_state'.latest_sample[1].temp - sim_state'.temp_c
                          \in {n.temp : n \in Noises}]_vars
    /\ [][TickStep /\ sim_state_id' # sim_state_id =>
            sim_state'.latest_sample = None]_vars

\* the heat was stopped inside the second window, one tick after that
\* window's sample replaced the first one
C32_Witness ==
    /\ sim_state.is_emergency_stop
    /\ sim_state.time_min = TsoFirstTick + 1
    /\ SampleOf(sim_state) = 70
    /\ sim_state.latest_sample[1].temp # sim_state.temp_c


\* C33: after every running tick the lance height is the scripted value for
\* the elapsed time, 1100 mm before 1 min, 1200 mm from 1 to 5 min and
\* 1000 mm afterwards, whatever the Simulation writer or resume() had set.
C33_LanceFollowsScript ==
    [][RunningTick =>
          sim_state'.lance_height_mm =
             (CASE sim_state'.time_min < LanceRaiseTick -> 1100
                [] sim_state'.time_min >= LanceRaiseTick
                      /\ sim_state'.time_min < LanceLowerTick -> 1200
                [] sim_state'.time_min >= LanceLowerTick -> 1000)]_vars

\* the tick that first lowers the lance: the writer had set another height
\* before it
C33_Witness ==
    /\ sim_state.time_min = LanceLowerTick
    /\ sim_state.last_ts = now
    /\ sim_state.lance_height_mm = 1000
    /\ wcall.op = "set_lance_height"
    /\ wcall.arg \notin {1000, 1100, 1200}


\* a tick of a process that is not stopped, whose advanced time passes the
\* end of the run
ResettingTick ==
    /\ TickStep
    /\ ~sim_state.is_emergency_stop
    /\ sim_state.time_min + step_s >= ResetTick

\* C34: the first running tick whose advanced time exceeds total_duration
\* plus the grace period replaces the whole state by a fresh initial one
\* (time 0, coolant 0, no sample, flag clear, nominal setpoints) and clears
\* the soft sensor's reference; no other tick reduces the time or clears
\* the reference, and the time never exceeds that limit after a tick.
C34_RunReset ==
    /\ [][ResettingTick =>
            /\ sim_state_id' = sim_state_id + 1
            /\ sim_state'.time_min = 0
            /\ sim_state'.coolant_added_kg = 0
            /\ sim_state'.latest_sample = None
            /\ ~sim_state'.is_emergency_stop
            /\ sim_state'.lance_height_mm = DefaultLanceHeight
            /\ sim_state'.oxygen_flow_nm3_min = DefaultOxygenFlow
            /\ sim_state'.c_pct = 35000
            /\ sim_state'.v_pct = 3500
            /\ sim_state'.mn_pct = 2000
            /\ sim_state'.si_pct - 2500 \in {d.si : d \in Draws}
            /\ sim_state'.temp_c - Deg(1280) \in {d.temp : d \in Draws}
            /\ sim_state'.d_si = 0 /\ sim_state'.d_c = 0
            /\ sim_state'.last_ts = now'
            /\ sensor_call'.reference = None]_vars
    /\ [][TickStep /\ ~ResettingTick =>
            /\ sim_state_id' = sim_state_id
            /\ sim_state'.time_min >= sim_state.time_min
            /\ sensor_call'.reference = last_valid_temp
            /\ last_valid_temp # None => last_valid_temp' # None]_vars
    /\ [](sim_state.time_min < ResetTick)

\* the tick that reset the run: the new state starts at time 0 with its
\* drawn temperature, and the sensor judged it without a reference
C34_Witness ==
    /\ sim_state_id = 1
    /\ sim_state.time_min = 0
    /\ sim_state.last_ts = now
    /\ sim_state.temp_c # Deg(1280)
    /\ sensor_call.reference = None
    /\ sensor_call.raw_temp = sim_state.temp_c
    /\ sensor_result.is_valid
    /\ last_valid_temp = Some(sim_state.temp_c)


\* the step is a call of resume()
ResumeStep == sim_state' = resume(sim_state)

\* C37: once the emergency-stop flag is set it stays set, the elapsed time
\* stays frozen and no run reset occurs until resume() is called: no tick,
\* writer call or mode switch clears it.
C37_StopHoldsUntilResume ==
    [][sim_state.is_emergency_stop /\ ~ResumeStep =>
          /\ sim_state'.is_emergency_stop
          /\ sim_state'.time_min = sim_state.time_min
          /\ sim_state_id' = sim_state_id
          /\ sim_state'.latest_sample = sim_state.latest_sample]_vars

\* the process was stopped just before the end of its run; the writer set
\* an oxygen flow, the mode was switched and two ticks passed, and the run
\* was neither reset nor released
C37_Witness ==
    /\ sim_state.is_emergency_stop
    /\ sim_state.time_min = ResetTick - 1
    /\ sim_state_id = 0
    /\ sim_state.last_ts = now
    /\ now >= (sim_state.time_min + 2 * step_s) * ClockRes
    /\ sim_state.oxygen_flow_nm3_min \in Flows
    /\ audit_log # <<>>


(* The audit log as a chain *)

\* C36: the audit log is a chain of mode changes: the first record leaves
\* Simulation, each record leaves the mode the previous one entered, no
\* record has equal from_mode and to_mode, the last record enters the
\* current mode, and no record goes from Simulation to Production.
C36_AuditChain ==
    /\ audit_log = <<>> => mode = "SIMULATION"
    /\ audit_log # <<>> =>
          /\ audit_log[1].from_mode = "SIMULATION"
          /\ audit_log[Len(audit_log)].to_mode = mode
    /\ \A i \in DOMAIN audit_log :
          /\ audit_log[i].from_mode # audit_log[i].to_mode
          /\ i > 1 => audit_log[i].from_mode = audit_log[i - 1].to_mode
          /\ ~(audit_log[i].from_mode = "SIMULATION" /\ audit_log[i].to_mode = "PRODUCTION")

\* a chain of three records that went through Validation into Production
\* and left it for Simulation
C36_Witness ==
    /\ Len(audit_log) = 3
    /\ audit_log[1].to_mode = "VALIDATION"
    /\ audit_log[2].to_mode = "PRODUCTION"
    /\ audit_log[3].from_mode = "PRODUCTION"
    /\ mode = "SIMULATION"


(* The credential *)

\* what a call for a target other than Production does, written without
\* its credential
CredentialFreeStep(t) ==
    \E r \in {req[t]} :
       IF now - last_switch_time < switch_cooldown
       THEN /\ outcome'[t] = "RuntimeError"
            /\ UNCHANGED ctrl_vars
       ELSE /\ outcome'[t] = "return"
            /\ IF r.new_mode = mode
               THEN UNCHANGED ctrl_vars
               ELSE /\ mode' = r.new_mode
                    /\ reader' = StrategyReader(r.new_mode)
                    /\ writer' = StrategyWriter(r.new_mode)
                    /\ Len(audit_log') = Len(audit_log) + 1
                    /\ SubSeq(audit_log', 1, Len(audit_log)) = audit_log
                    /\ LastOf(audit_log').from_mode = mode
                    /\ LastOf(audit_log').to_mode = r.new_mode
                    /\ LastOf(audit_log').user = r.user
                    /\ LastOf(audit_log').reason = r.reason
                    /\ last_switch_time' = now

\* C38: the credential decides nothing unless the target is Production: a
\* call for Simulation or Validation ends, and changes the mode, the
\* bindings and the audit log, as its target, the current mode and the
\* cooldown alone determine, so also when it leaves Production; and a call
\* for Production with the valid credential is never refused for it.
C38_CredentialOnlyForProduction ==
    [][\A t \in Tasks :
          /\ (BodyStep(t) /\ req[t].new_mode # "PRODUCTION") => CredentialFreeStep(t)
          /\ (BodyStep(t) /\ outcome'[t] = "PermissionError") =>
                /\ req[t].new_mode = "PRODUCTION"
                /\ req[t].auth_token # PRODUCTION_TOKEN]_vars

\* Production was entered and then left by a call that carried a wrong
\* credential
C38_Witness ==
    /\ Len(audit_log) = 3
    /\ audit_log[3].from_mode = "PRODUCTION"
    /\ audit_log[3].user = UserOf["t2"]
    /\ req["t2"].auth_token = "wrong_token"
    /\ outcome["t2"] = "return"
    /\ pc["t2"] = "idle"


(* Recovery of the soft sensor *)

\* a process() call whose reading is inside the valid range and no more
\* than the maximum rate of change away from the reading of the call before
HealthyCall ==
    ProcessStep =>
       /\ Deg(TEMP_MIN) <= sensor_call'.raw_temp
       /\ sensor_call'.raw_temp <= Deg(TEMP_MAX)
       /\ sensor_call.validation.reason # "unset" =>
             Abs(sensor_call'.raw_temp - sensor_call.raw_temp) * 60
                <= Deg(TEMP_MAX_CHANGE_RATE) * sensor_call'.dt_s

\* a process() call that returns is_valid = true
ValidCall == ProcessStep /\ sensor_result'.is_valid

\* C35: the soft sensor recovers from a fault: when from some call onward
\* the raw reading stays inside [1200, 1550] and changes no faster than
\* 50 degC/min from one reading to the next, and calls keep being made, a
\* later call returns is_valid = true.
C35_SensorRecovers ==
    (<>[][HealthyCall]_vars /\ []<><<ProcessStep>>_vars) => []<><<ValidCall>>_vars

(* The workflow graph *)

Deviating(state) ==
    state.l2_res # None /\ Abs(state.l2_res[1] - target_temp) > TempDeviationLimit

RECURSIVE CountOf(_, _)
CountOf(seq, x) ==
    IF seq = <<>> THEN 0
    ELSE (IF Head(seq) = x THEN 1 ELSE 0) + CountOf(Tail(seq), x)

\* C39: critic and save_context are entered only with a latest simulated
\* final temperature within 15 degC of the 1380 degC target or with
\* approval_status "approved"; a deviating result without a human decision
\* is at human_approval, where the node pauses, and not at critic,
\* save_context or END.
C39_CriticOnlyWhenCloseOrApproved ==
    /\ [](Deviating(graph) /\ graph.decisions = 0 => graph.at = "human_approval")
    /\ [][/\ (graph'.at \in {"critic", "save_context"} /\ graph'.at # graph.at) =>
                \/ graph'.l2_res # None /\ ~Deviating(graph')
                \/ graph'.approval_status = Some("approved")
          /\ (graph.at = "human_approval" /\ ~graph.paused
                 /\ graph.approval_status = None /\ graph' # graph) =>
                graph' = [graph EXCEPT !.paused = TRUE]]_vars

\* a result 16 degC above the target was approved and the critic has run
C39_Witness ==
    /\ graph.at = "save_context"
    /\ graph.l2_res = Some(target_temp + TempDeviationLimit + 1)
    /\ graph.approval_status = Some("approved")
    /\ graph.decisions = 1

\* C40: a run never goes round between simulation and human_approval
\* without a new human decision: human_approval sends the thread back to
\* simulation at most once for each decision made.
C40_NoCycleWithoutDecision ==
    CountOf(graph.messages, "modified") <= graph.decisions

====
